---- MODULE Spec2Model ----
(***************************************************************************)
(* A model of the FDCA vector-engine runtime (fulongping/kkk-drv):         *)
(* capability validation, the CSR context and VTYPE decoding, the          *)
(* register-file state, instruction decoding and hazard analysis, and the  *)
(* VRF register allocator.                                                 *)
(*                                                                         *)
(* Conventions.                                                            *)
(*  - A C function returning 0 / -Exxx returns "OK" / "Exxx" here.         *)
(*  - NULL is the model value "NULL"; a heap pointer is a buffer id >= 1,  *)
(*    and the null data pointer is 0.                                      *)
(*  - A 64-bit or 32-bit word whose bits the code picks apart (VTYPE, an   *)
(*    instruction opcode) is the set of the positions of its 1-bits, so    *)
(*    that bit 63 and bit 31 are representable; shifts and masks are       *)
(*    computed on that set (ShiftMask).                                    *)
(*  - Each subsystem has its own specification (SpecConfig, SpecCsr, ...); *)
(*    the variables of the other subsystems stay at their initial value.   *)
(***************************************************************************)
EXTENDS Integers, Sequences, FiniteSets, TLC

VARIABLES
    \* ---- capability (struct fdca_rvv_config inside struct fdca_device)
    rvv_available,   \* fdev->rvv_available
    rvv_config,      \* fdev->rvv_config: [vlen, elen, num_lanes, vlenb]
    cfg_op,          \* the last capability operation called
    cfg_ret          \* and what it returned

cfgVars == <<rvv_available, rvv_config, cfg_op, cfg_ret>>

VARIABLES
    \* ---- CSR context (struct fdca_rvv_csr_context) and the CSR accessors
    g_rvv_manager,   \* the global manager pointer: "NULL" or "mgr"; the
                     \* manager's hw_config points at fdev->rvv_config
    csr_ctx,         \* the CSR context the calls work on
    csr_reads,       \* the <<address, value>> reads of the last CSR call
    csr_writes,      \* the <<address, value>> writes of the last CSR call
    csr_arg,         \* the pointer the last CSR call was given: "NULL" or "ctx"
    csr_op,          \* the last CSR operation called
    csr_prev,        \* the CSR operation called before it
    csr_ret          \* what the last CSR operation returned

csrVars == <<g_rvv_manager, csr_ctx, csr_reads, csr_writes, csr_arg, csr_op,
             csr_prev, csr_ret>>

VARIABLES
    \* ---- register-file state (struct fdca_rvv_register_state) and the heap
    reg_state,       \* the register state the calls work on
    heap,            \* buffer id -> size of the live kzalloc buffer, -1 if none
    regs_op,         \* the last register-state operation called
    regs_ret         \* and what it returned

regsVars == <<reg_state, heap, regs_op, regs_ret>>

VARIABLES
    \* ---- instruction decoding (struct fdca_rvv_instr)
    opcode,          \* the u32 instruction word, as the set of its 1-bits
    instr,           \* the descriptor parse_instr fills
    instr_arg,       \* the descriptor pointer the last call was given
    instr_op,        \* the last decoder operation called
    instr_ret,       \* and what it returned
    case0            \* the "case 0x00" label of the funct6 switch the build takes

instrVars == <<opcode, instr, instr_arg, instr_op, instr_ret, case0>>

VARIABLES
    \* ---- hazard query
    hz_a, hz_b,      \* the two descriptors; [null |-> TRUE] is a NULL pointer
    hz_op,           \* "none" or "conflicts"
    hz_ab, hz_ba     \* fdca_rvv_instr_conflicts(a, b) and (b, a)

hzVars == <<hz_a, hz_b, hz_op, hz_ab, hz_ba>>

VARIABLES
    \* ---- VRF register allocator (struct fdca_vrf_manager)
    vrf_mgr,         \* the global vrf_mgr pointer: "NULL" or "mgr"
    allocated_regs,  \* the allocation bitmap, as the set of its 1-bits
    reg_allocations, \* atomic64 counters
    reg_frees,
    vrf_op,          \* the last VRF operation called
    vrf_ret,         \* and what it returned: [err, reg]
    vpu_base,        \* fdev->units[FDCA_UNIT_VPU].mmio_base, 0 when not mapped
    lane_info,       \* vrf_mgr->lane_info: [num_lanes, lane_width, lane_bases]
    lane_accesses,   \* atomic64 counter
    lane_io          \* the last memcpy_fromio / memcpy_toio: [dir, addr, size]

vrfVars == <<vrf_mgr, allocated_regs, reg_allocations, reg_frees, vrf_op, vrf_ret,
             vpu_base, lane_info, lane_accesses, lane_io>>

VARIABLES
    \* ---- vector memory operations (struct fdca_vector_mem_op, the VPU unit)
    vpu_present,     \* fdev->units[FDCA_UNIT_VPU].present
    vmem_op,         \* the descriptor execute works on
    dma_live,        \* the DMA-coherent buffers that are allocated
    vmem_log,        \* the dma_alloc_coherent / dma_free_coherent calls of the
                     \* current execute call, in order
    vmem_writes,     \* the <<offset, value>> register writes of that call
    vmem_seen,       \* the status values its completion poll has read
    vmem_polls,      \* the number of polls it has made
    vmem_pc,         \* "idle", "wait" (in the completion poll), "done", "oops"
    vmem_ret         \* what execute returned

vmemVars == <<vpu_present, vmem_op, dma_live, vmem_log, vmem_writes, vmem_seen,
              vmem_polls, vmem_pc, vmem_ret>>

VARIABLES
    \* ---- vector contexts (struct fdca_rvv_context) and the state manager
    ctx,             \* context id -> the context object
    mgr,             \* *g_rvv_manager (all zero while g_rvv_manager is NULL)
    kheap,           \* the live kzalloc objects of the contexts and the manager
    ctx_op,          \* the last context operation called
    ctx_arg,         \* the context it was called on (0 is NULL)
    ctx_ret,         \* what it returned
    ctx_writes,      \* the <<address, value>> CSR writes it issued
    ctx_trace,       \* the save / restore calls it made, in order
    ctx_calls,       \* the number of calls made so far
    thr              \* thread -> the save / restore call it is inside

ctxVars == <<ctx, mgr, kheap, ctx_op, ctx_arg, ctx_ret, ctx_writes, ctx_trace,
             ctx_calls, thr>>

VARIABLES
    \* ---- callers of the VRF allocator running concurrently
    vrf_thr,         \* per thread: [pc, op, reg, ret]
    vrf_lock         \* vrf_mgr->alloc_lock: 0 when free, else the holder

vrfcVars == <<vrf_thr, vrf_lock>>

VARIABLES
    \* ---- fences (src/fdca_sync.c)
    sync_objects,    \* the list sync_objects: records [fence_id, done, signaled]
    fence_counter,   \* atomic_t fence_counter
    sync_thr,        \* per thread in fdca_sync_wait_fence: [pc, id, timeout, ret]
    sync_call        \* the last create or signal call: [op, id, ret]

syncVars == <<sync_objects, fence_counter, sync_thr, sync_call>>

vars == <<cfgVars, csrVars, regsVars, instrVars, hzVars, vrfVars, vmemVars, ctxVars, vrfcVars, syncVars>>

\* what the operations of one subsystem leave alone
otherThanCfg == <<csrVars, regsVars, instrVars, hzVars, vrfVars, vmemVars, ctxVars, vrfcVars, syncVars>>
otherThanCsr == <<cfgVars, regsVars, instrVars, hzVars, vrfVars, vmemVars, ctxVars, vrfcVars, syncVars>>
otherThanRegs == <<cfgVars, csrVars, instrVars, hzVars, vrfVars, vmemVars, ctxVars, vrfcVars, syncVars>>
otherThanInstr == <<cfgVars, csrVars, regsVars, hzVars, vrfVars, vmemVars, ctxVars, vrfcVars, syncVars>>
otherThanHz == <<cfgVars, csrVars, regsVars, instrVars, vrfVars, vmemVars, ctxVars, vrfcVars, syncVars>>
otherThanVrf == <<cfgVars, csrVars, regsVars, instrVars, hzVars, vmemVars, ctxVars, vrfcVars, syncVars>>
otherThanVmem == <<cfgVars, csrVars, regsVars, instrVars, hzVars, vrfVars, ctxVars, vrfcVars, syncVars>>
\* the context and manager operations set g_rvv_manager
otherThanCtx == <<cfgVars, csr_ctx, csr_reads, csr_writes, csr_arg, csr_op, csr_prev,
                  csr_ret, regsVars, instrVars, hzVars, vrfVars, vmemVars, vrfcVars, syncVars>>
\* the threaded allocator calls work on the allocator's bitmap and counters
otherThanVrfConc == <<cfgVars, csrVars, regsVars, instrVars, hzVars, vmemVars, ctxVars, syncVars>>
otherThanSync == <<cfgVars, csrVars, regsVars, instrVars, hzVars, vrfVars, vmemVars, ctxVars, vrfcVars>>

(***************************************************************************)
(* Words as bit sets                                                       *)
(***************************************************************************)
RECURSIVE Pow2(_)
Pow2(n) == IF n = 0 THEN 1 ELSE 2 * Pow2(n - 1)

RECURSIVE BitsVal(_)
\* the number a bit set stands for
BitsVal(bits) ==
    IF bits = {} THEN 0
    ELSE LET b == CHOOSE x \in bits : TRUE
         IN  Pow2(b) + BitsVal(bits \ {b})

\* the bit set of the number n, n < 2^width
BitsOf(n, width) == { b \in 0..(width - 1) : (n \div Pow2(b)) % 2 = 1 }

\* (word >> shift) & mask, as a number; mask < 2^16
ShiftMask(word, shift, mask) ==
    BitsVal({ b \in BitsOf(mask, 16) : (b + shift) \in word })

(***************************************************************************)
(* Capability model: src/fdca_rvv_config.c, src/fdca_pci.c                 *)
(***************************************************************************)
FDCA_MAX_LANES == 16
FDCA_RVV_MAX_VLEN == 65536
FDCA_RVV_MAX_ELEN == 64
FDCA_RVV_NUM_VREGS == 32

\* the capabilities a caller may hand to fdca_rvv_config_validate
VlenInputs == {0, 64, 127, 128, 1024, 65536, 65537}
ElenInputs == {0, 8, 64, 65, 128}
LaneInputs == {0, 1, 4, 16, 17}

\* values of the RVV configuration register: bits[3:0] VLEN multiple,
\* bits[6:4] ELEN code, bits[11:8] lane code
ConfigRegInputs ==
    { m + 16 * e + 256 * l : m \in {0, 15}, e \in {0, 3, 4, 7}, l \in {0, 2, 4, 5, 15} }

ZeroConfig == [vlen |-> 0, elen |-> 0, num_lanes |-> 0, vlenb |-> 0]

fdca_rvv_config_validate_BadLanes(config) ==
    IF config.vlen < 128 \/ config.vlen > 65536 THEN "EINVAL"
    ELSE IF config.elen > 64 THEN "EINVAL"
    ELSE IF config.num_lanes > 16 THEN "EINVAL"
    ELSE "OK"

\* int fdca_rvv_config_validate(fdev): the value returned for fdev->rvv_config
fdca_rvv_config_validate(config) ==
    IF config.vlen < 128 \/ config.vlen > 65536 THEN "EINVAL"
    ELSE IF config.elen > 64 THEN "EINVAL"
    ELSE IF config.num_lanes = 0 \/ config.num_lanes > 16 THEN "EINVAL"
    ELSE "OK"

\* the configuration fdca_detect_rvv_capabilities parses out of the register
ParseConfigReg(reg) ==
    LET vlen == 1024 * ((reg % 16) + 1)
    IN  [vlen      |-> vlen,
         elen      |-> 8 * Pow2((reg \div 16) % 8),
         num_lanes |-> Pow2((reg \div 256) % 16),
         vlenb     |-> vlen \div 8]

\* the checks that end fdca_detect_rvv_capabilities
DetectVerdict(config) ==
    IF config.vlen < 128 \/ config.vlen > FDCA_RVV_MAX_VLEN THEN "EINVAL"
    ELSE IF config.elen > FDCA_RVV_MAX_ELEN THEN "EINVAL"
    ELSE IF config.num_lanes = 0 \/ config.num_lanes > FDCA_MAX_LANES THEN "EINVAL"
    ELSE "OK"

InitConfig ==
    /\ rvv_available \in BOOLEAN
    /\ rvv_config \in [vlen : VlenInputs, elen : ElenInputs,
                       num_lanes : LaneInputs, vlenb : {0}]
    /\ cfg_op = "none"
    /\ cfg_ret = "none"

IdleConfig ==
    /\ rvv_available = TRUE
    /\ rvv_config = [vlen |-> 1024, elen |-> 64, num_lanes |-> 4, vlenb |-> 128]
    /\ cfg_op = "none"
    /\ cfg_ret = "none"

\* fdca_rvv_config_validate(fdev) / fdca_rvv_config_init(fdev)
ConfigValidate ==
    /\ cfg_op' = "validate"
    /\ cfg_ret' = fdca_rvv_config_validate(rvv_config)
    /\ UNCHANGED <<rvv_available, rvv_config>>
    /\ UNCHANGED otherThanCfg

\* fdca_detect_rvv_capabilities(fdev), reading reg from FDCA_REG_RVV_CONFIG
DetectRvvCapabilities(reg) ==
    /\ cfg_op' = "detect"
    /\ IF ~rvv_available
       THEN /\ cfg_ret' = "OK"
            /\ UNCHANGED rvv_config
       ELSE /\ rvv_config' = ParseConfigReg(reg)
            /\ cfg_ret' = DetectVerdict(ParseConfigReg(reg))
    /\ UNCHANGED rvv_available
    /\ UNCHANGED otherThanCfg

(***************************************************************************)
(* CSR context: src/fdca_rvv_state.c, src/fdca_rvv_state.h                 *)
(***************************************************************************)
FDCA_CSR_VSTART == 8
FDCA_CSR_VXSAT == 9
FDCA_CSR_VXRM == 10
FDCA_CSR_VCSR == 15
FDCA_CSR_VL == 3104
FDCA_CSR_VTYPE == 3105
FDCA_CSR_VLENB == 3106

FDCA_VTYPE_VLMUL_MASK == 7
FDCA_VTYPE_VSEW_MASK == 56
FDCA_VTYPE_VLMUL_SHIFT == 0
FDCA_VTYPE_VSEW_SHIFT == 3
\* BIT(6), BIT(7), BIT(63): the position of the bit
FDCA_VTYPE_VTA == 6
FDCA_VTYPE_VMA == 7
FDCA_VTYPE_VILL == 63

\* the clock values ktime_get_boottime_seconds() may return
MaxTime == 1
Times == 1..MaxTime
\* the save counter is a u32; the model stops saving at this count
MaxSaveCount == 1

\* static inline u32 fdca_rvv_get_sew_bits(u32 vsew)
fdca_rvv_get_sew_bits(vsew) == 8 * Pow2(vsew)

fdca_rvv_get_lmul_fraction_Shift7(vlmul) ==
    IF vlmul <= 3 THEN [mul |-> Pow2(vlmul), div |-> 1]
    ELSE IF vlmul >= 5 /\ vlmul <= 7 THEN [mul |-> 1, div |-> Pow2(7 - vlmul)]
    ELSE [mul |-> 1, div |-> 1]

\* static inline void fdca_rvv_get_lmul_fraction(u32 vlmul, u32 *mul, u32 *div)
fdca_rvv_get_lmul_fraction(vlmul) ==
    IF vlmul <= 3 THEN [mul |-> Pow2(vlmul), div |-> 1]
    ELSE IF vlmul >= 5 /\ vlmul <= 7 THEN [mul |-> 1, div |-> Pow2(8 - vlmul)]
    ELSE [mul |-> 1, div |-> 1]

\* sew_bits computed before the new vsew is stored: it follows the old one
fdca_rvv_csr_parse_vtype_StaleSew(c) ==
    IF FDCA_VTYPE_VILL \in c.vtype
    THEN [c EXCEPT !.parsed.vill = TRUE]
    ELSE LET vlmul == ShiftMask(c.vtype, FDCA_VTYPE_VLMUL_SHIFT, FDCA_VTYPE_VLMUL_MASK)
             vsew  == ShiftMask(c.vtype, FDCA_VTYPE_VSEW_SHIFT,
                                FDCA_VTYPE_VSEW_MASK \div Pow2(FDCA_VTYPE_VSEW_SHIFT))
         IN  [c EXCEPT !.parsed =
                [vlmul    |-> vlmul,
                 vsew     |-> vsew,
                 vta      |-> FDCA_VTYPE_VTA \in c.vtype,
                 vma      |-> FDCA_VTYPE_VMA \in c.vtype,
                 vill     |-> FALSE,
                 sew_bits |-> fdca_rvv_get_sew_bits(c.parsed.vsew),
                 lmul_mul |-> fdca_rvv_get_lmul_fraction(vlmul).mul,
                 lmul_div |-> fdca_rvv_get_lmul_fraction(vlmul).div]]

\* the VSEW field masked without being shifted down
fdca_rvv_csr_parse_vtype_NoShift(c) ==
    IF FDCA_VTYPE_VILL \in c.vtype
    THEN [c EXCEPT !.parsed.vill = TRUE]
    ELSE LET vlmul == ShiftMask(c.vtype, FDCA_VTYPE_VLMUL_SHIFT, FDCA_VTYPE_VLMUL_MASK)
             vsew  == ShiftMask(c.vtype, 0,
                                FDCA_VTYPE_VSEW_MASK \div Pow2(FDCA_VTYPE_VSEW_SHIFT))
         IN  [c EXCEPT !.parsed =
                [vlmul    |-> vlmul,
                 vsew     |-> vsew,
                 vta      |-> FDCA_VTYPE_VTA \in c.vtype,
                 vma      |-> FDCA_VTYPE_VMA \in c.vtype,
                 vill     |-> FALSE,
                 sew_bits |-> fdca_rvv_get_sew_bits(vsew),
                 lmul_mul |-> fdca_rvv_get_lmul_fraction(vlmul).mul,
                 lmul_div |-> fdca_rvv_get_lmul_fraction(vlmul).div]]

\* void fdca_rvv_csr_parse_vtype(csr_ctx): the context after the call.
\* vill is set first; an illegal vtype leaves the other fields as they were.
fdca_rvv_csr_parse_vtype(c) ==
    IF FDCA_VTYPE_VILL \in c.vtype
    THEN [c EXCEPT !.parsed.vill = TRUE]
    ELSE LET vlmul == ShiftMask(c.vtype, FDCA_VTYPE_VLMUL_SHIFT, FDCA_VTYPE_VLMUL_MASK)
             vsew  == ShiftMask(c.vtype, FDCA_VTYPE_VSEW_SHIFT,
                                FDCA_VTYPE_VSEW_MASK \div Pow2(FDCA_VTYPE_VSEW_SHIFT))
         IN  [c EXCEPT !.parsed =
                [vlmul    |-> vlmul,
                 vsew     |-> vsew,
                 vta      |-> FDCA_VTYPE_VTA \in c.vtype,
                 vma      |-> FDCA_VTYPE_VMA \in c.vtype,
                 vill     |-> FALSE,
                 sew_bits |-> fdca_rvv_get_sew_bits(vsew),
                 lmul_mul |-> fdca_rvv_get_lmul_fraction(vlmul).mul,
                 lmul_div |-> fdca_rvv_get_lmul_fraction(vlmul).div]]

\* static u64 fdca_rvv_read_csr(u32 csr_addr); VTYPE reads as the bit set
\* of FDCA_VTYPE_VILL
fdca_rvv_read_csr(csr_addr) ==
    CASE csr_addr = FDCA_CSR_VSTART -> 0
      [] csr_addr = FDCA_CSR_VXSAT  -> 0
      [] csr_addr = FDCA_CSR_VXRM   -> 0
      [] csr_addr = FDCA_CSR_VCSR   -> 0
      [] csr_addr = FDCA_CSR_VL     -> 0
      [] csr_addr = FDCA_CSR_VTYPE  -> {FDCA_VTYPE_VILL}
      [] csr_addr = FDCA_CSR_VLENB  ->
            IF g_rvv_manager # "NULL" THEN rvv_config.vlenb ELSE 128
      [] OTHER -> 0

\* the reads fdca_rvv_csr_save issues, in order
CsrSaveReads ==
    [i \in 1..7 |->
        LET addr == <<FDCA_CSR_VSTART, FDCA_CSR_VXSAT, FDCA_CSR_VXRM, FDCA_CSR_VCSR,
                      FDCA_CSR_VL, FDCA_CSR_VTYPE, FDCA_CSR_VLENB>>[i]
        IN  <<addr, fdca_rvv_read_csr(addr)>>]

\* int fdca_rvv_csr_save(csr_ctx): the context after the call, at time t
fdca_rvv_csr_save(c, t) ==
    LET raw == [c EXCEPT !.vstart = fdca_rvv_read_csr(FDCA_CSR_VSTART),
                         !.vxsat  = fdca_rvv_read_csr(FDCA_CSR_VXSAT),
                         !.vxrm   = fdca_rvv_read_csr(FDCA_CSR_VXRM),
                         !.vcsr   = fdca_rvv_read_csr(FDCA_CSR_VCSR),
                         !.vl     = fdca_rvv_read_csr(FDCA_CSR_VL),
                         !.vtype  = fdca_rvv_read_csr(FDCA_CSR_VTYPE),
                         !.vlenb  = fdca_rvv_read_csr(FDCA_CSR_VLENB)]
    IN  [fdca_rvv_csr_parse_vtype(raw) EXCEPT
            !.valid = TRUE, !.dirty = FALSE, !.save_time = t,
            !.save_count = @ + 1]

\* the VTYPE write left out
CsrRestoreWrites_NoVtype(c) ==
    << <<FDCA_CSR_VSTART, c.vstart>>, <<FDCA_CSR_VXSAT, c.vxsat>>,
       <<FDCA_CSR_VXRM, c.vxrm>>, <<FDCA_CSR_VCSR, c.vcsr>>,
       <<FDCA_CSR_VL, c.vl>> >>

\* a seventh write, to the read-only VLENB
CsrRestoreWrites_WithVlenb(c) ==
    << <<FDCA_CSR_VSTART, c.vstart>>, <<FDCA_CSR_VXSAT, c.vxsat>>,
       <<FDCA_CSR_VXRM, c.vxrm>>, <<FDCA_CSR_VCSR, c.vcsr>>,
       <<FDCA_CSR_VL, c.vl>>, <<FDCA_CSR_VTYPE, c.vtype>>,
       <<FDCA_CSR_VLENB, c.vlenb>> >>

\* the writes fdca_rvv_csr_restore issues for a valid context, in order
CsrRestoreWrites(c) ==
    << <<FDCA_CSR_VSTART, c.vstart>>, <<FDCA_CSR_VXSAT, c.vxsat>>,
       <<FDCA_CSR_VXRM, c.vxrm>>, <<FDCA_CSR_VCSR, c.vcsr>>,
       <<FDCA_CSR_VL, c.vl>>, <<FDCA_CSR_VTYPE, c.vtype>> >>

\* a context as kzalloc / memset leaves it
ZeroView == [vlmul |-> 0, vsew |-> 0, vta |-> FALSE, vma |-> FALSE, vill |-> FALSE,
             sew_bits |-> 0, lmul_mul |-> 0, lmul_div |-> 0]

ZeroCsr == [vstart |-> 0, vxsat |-> 0, vxrm |-> 0, vcsr |-> 0, vl |-> 0,
            vtype |-> {}, vlenb |-> 0, parsed |-> ZeroView,
            valid |-> FALSE, dirty |-> FALSE, save_time |-> 0, save_count |-> 0]

\* a derived view left over from an earlier, different vtype
StaleView == [vlmul |-> 6, vsew |-> 2, vta |-> TRUE, vma |-> TRUE, vill |-> TRUE,
              sew_bits |-> 32, lmul_mul |-> 1, lmul_div |-> 4]

\* the VTYPE values the calls are tried on: every vlmul and vsew, the
\* agnostic bits, a reserved bit, and the illegal bit
VtypeInputs ==
    { l \cup s \cup f : l \in SUBSET {0, 1, 2}, s \in SUBSET {3, 4, 5},
                        f \in {{}, {6}, {7, 8}, {63}, {6, 63}} }

\* the contexts a caller may hand to the exported CSR functions
CsrInputs ==
    { [ZeroCsr EXCEPT !.vtype = v, !.parsed = p, !.valid = b, !.vl = 4] :
        v \in VtypeInputs, p \in {ZeroView, StaleView}, b \in BOOLEAN }

\* the detected capabilities the manager's hw_config may point at
HwConfigs == { ParseConfigReg(r) : r \in {0 + 16 * 3 + 256 * 2, 1 + 16 * 3 + 256 * 2} }

InitCsr ==
    /\ g_rvv_manager \in {"NULL", "mgr"}
    /\ csr_ctx \in CsrInputs
    /\ csr_reads = <<>>
    /\ csr_writes = <<>>
    /\ csr_arg = "none"
    /\ csr_op = "none"
    /\ csr_prev = "none"
    /\ csr_ret = "none"

IdleCsr ==
    /\ g_rvv_manager = "NULL"
    /\ csr_ctx = ZeroCsr
    /\ csr_reads = <<>>
    /\ csr_writes = <<>>
    /\ csr_arg = "none"
    /\ csr_op = "none"
    /\ csr_prev = "none"
    /\ csr_ret = "none"

\* fdca_rvv_csr_parse_vtype(&ctx)
CsrParseVtype ==
    /\ csr_ctx' = fdca_rvv_csr_parse_vtype(csr_ctx)
    /\ csr_reads' = <<>>
    /\ csr_writes' = <<>>
    /\ csr_arg' = "ctx"
    /\ csr_op' = "parse_vtype"
    /\ csr_prev' = csr_op
    /\ csr_ret' = "void"
    /\ UNCHANGED g_rvv_manager
    /\ UNCHANGED otherThanCsr

\* fdca_rvv_csr_save(arg), the clock reading t
CsrSave(arg, t) ==
    /\ csr_ctx.save_count < MaxSaveCount
    /\ IF arg = "NULL"
       THEN /\ csr_ret' = "EINVAL"
            /\ csr_reads' = <<>>
            /\ UNCHANGED csr_ctx
       ELSE /\ csr_ctx' = fdca_rvv_csr_save(csr_ctx, t)
            /\ csr_reads' = CsrSaveReads
            /\ csr_ret' = "OK"
    /\ csr_writes' = <<>>
    /\ csr_arg' = arg
    /\ csr_op' = "csr_save"
    /\ csr_prev' = csr_op
    /\ UNCHANGED g_rvv_manager
    /\ UNCHANGED otherThanCsr

\* fdca_rvv_csr_restore(arg)
CsrRestore(arg) ==
    /\ IF arg = "NULL" \/ ~csr_ctx.valid
       THEN /\ csr_ret' = "EINVAL"
            /\ csr_writes' = <<>>
       ELSE /\ csr_writes' = CsrRestoreWrites(csr_ctx)
            /\ csr_ret' = "OK"
    /\ csr_reads' = <<>>
    /\ csr_arg' = arg
    /\ csr_op' = "csr_restore"
    /\ csr_prev' = csr_op
    /\ UNCHANGED <<g_rvv_manager, csr_ctx>>
    /\ UNCHANGED otherThanCsr

\* the contexts fdca_rvv_csr_validate is tried on: parsed and never parsed
\* (sew_bits = 0), with vl and vstart around the bounds of vlen 1024 and 2048
ValidateVlInputs == {0, 4, 128, 129, 256, 257}
ValidateCsrInputs ==
    { [ZeroCsr EXCEPT !.vtype = v, !.vl = vl, !.vstart = vs, !.valid = TRUE] :
        v \in {{}, {3}, {63}}, vl \in ValidateVlInputs, vs \in {0, 5, 130} }

\* the outcomes of the unsigned division by sew_bits = 0 (undefined in C):
\* a divide trap, or a quotient that vl does or does not exceed
DivByZeroOutcomes == {"trap", "above", "below"}

\* int fdca_rvv_csr_validate(csr_ctx), for a non-NULL csr_ctx; hw_config
\* points at fdev->rvv_config whenever g_rvv_manager is set
fdca_rvv_csr_validate(c, div0) ==
    IF c.parsed.vill THEN "EINVAL"
    ELSE IF g_rvv_manager # "NULL" /\ c.parsed.sew_bits = 0 /\ div0 = "trap"
    THEN "OOPS"
    ELSE IF /\ g_rvv_manager # "NULL"
            /\ IF c.parsed.sew_bits = 0 THEN div0 = "above"
               ELSE c.vl > rvv_config.vlen \div c.parsed.sew_bits
    THEN "ERANGE"
    ELSE IF c.vstart > c.vl THEN "ERANGE"
    ELSE "OK"

InitCsrValidate ==
    /\ g_rvv_manager \in {"NULL", "mgr"}
    /\ csr_ctx \in ValidateCsrInputs \cup {ZeroCsr}   \* ZeroCsr: as context_create leaves it
    /\ csr_reads = <<>>
    /\ csr_writes = <<>>
    /\ csr_arg = "none"
    /\ csr_op = "none"
    /\ csr_prev = "none"
    /\ csr_ret = "none"

\* fdca_rvv_csr_validate(arg)
CsrValidate(arg, div0) ==
    /\ csr_ret # "OOPS"
    /\ csr_ret' = IF arg = "NULL" THEN "EINVAL" ELSE fdca_rvv_csr_validate(csr_ctx, div0)
    /\ csr_reads' = <<>>
    /\ csr_writes' = <<>>
    /\ csr_arg' = arg
    /\ csr_op' = "csr_validate"
    /\ csr_prev' = csr_op
    /\ UNCHANGED <<g_rvv_manager, csr_ctx>>
    /\ UNCHANGED otherThanCsr

(***************************************************************************)
(* Register-file state: src/fdca_rvv_state.c                               *)
(***************************************************************************)
\* the buffers kzalloc can hand out
MaxBufs == 2
BufIds == 1..MaxBufs

\* struct fdca_rvv_register_state as kzalloc / memset leaves it
ZeroRegs == [vregs_data |-> 0, vregs_size |-> 0, num_vregs |-> 0,
             vmask_data |-> 0, vmask_size |-> 0,
             allocated |-> FALSE, saved |-> FALSE, save_time |-> 0, ref_count |-> 0]

EmptyHeap == [b \in BufIds |-> -1]

\* the pointer a successful kzalloc returns: a buffer that is not live
FreshBuf(h) == CHOOSE b \in BufIds : h[b] = -1 /\ \A c \in BufIds : h[c] = -1 => b <= c

\* the validated capabilities a register file is allocated for
RegsConfigs ==
    { [vlen |-> v, elen |-> 64, num_lanes |-> 4, vlenb |-> v \div 8] :
        v \in {128, 256, 512, 1024, 1028, 2048, 4096, 8192, 16384, 32768,
               65528, 65536} }

\* the mask buffer sized like the vector-register buffer
RegsAllocSizes_MaskTimes32(config) ==
    [vregs |-> (config.vlen \div 8) * FDCA_RVV_NUM_VREGS,
     vmask |-> (config.vlen \div 8) * FDCA_RVV_NUM_VREGS]

\* the sizes fdca_rvv_regs_alloc computes; for a validated vlen <= 65536
\* the u32 product does not wrap
RegsAllocSizes(config) ==
    [vregs |-> (config.vlen \div 8) * FDCA_RVV_NUM_VREGS,
     vmask |-> config.vlen \div 8]

\* the largest reference count followed
MaxRefs == 2

\* the count ignored: every release of an allocated state frees
fdca_rvv_regs_free_IgnoreCount(r) ==
    IF ~r.allocated THEN [regs |-> r, freed |-> FALSE]
    ELSE [regs |-> ZeroRegs, freed |-> TRUE]

\* void fdca_rvv_regs_free(reg_state): the state after it, and whether the
\* two buffers were kfree'd
fdca_rvv_regs_free(r) ==
    IF ~r.allocated THEN [regs |-> r, freed |-> FALSE]
    ELSE IF r.ref_count - 1 > 0
    THEN [regs |-> [r EXCEPT !.ref_count = @ - 1], freed |-> FALSE]
    ELSE [regs |-> ZeroRegs, freed |-> TRUE]

\* int fdca_rvv_regs_save(reg_state, config), the clock reading t; the
\* memset of the two buffers changes their contents, no field
fdca_rvv_regs_save(r, t) ==
    IF ~r.allocated
    THEN [regs |-> r, ret |-> "EINVAL"]
    ELSE [regs |-> [r EXCEPT !.saved = TRUE, !.save_time = t], ret |-> "OK"]

\* the saved flag not looked at
fdca_rvv_regs_restore_NoSavedCheck(r) ==
    IF ~r.allocated THEN "EINVAL" ELSE "OK"

\* int fdca_rvv_regs_restore(reg_state, config)
fdca_rvv_regs_restore(r) ==
    IF ~r.allocated \/ ~r.saved THEN "EINVAL" ELSE "OK"

InitRegs ==
    /\ reg_state = ZeroRegs
    /\ heap = EmptyHeap
    /\ regs_op = "none"
    /\ regs_ret = "none"

IdleRegs == InitRegs

\* fdca_rvv_regs_alloc(&regs, &fdev->rvv_config) on the zeroed state of a new
\* context; fail names the kzalloc that returns NULL
RegsAlloc(fail) ==
    /\ ~reg_state.allocated
    /\ regs_op' = "regs_alloc"
    /\ LET size == RegsAllocSizes(rvv_config)
           vregs == FreshBuf(heap)
           heap1 == [heap EXCEPT ![vregs] = size.vregs]
           vmask == FreshBuf(heap1)
       IN  CASE fail = "vregs" ->
                  /\ reg_state' = [reg_state EXCEPT !.vregs_data = 0]
                  /\ heap' = heap
                  /\ regs_ret' = "ENOMEM"
             [] fail = "vmask" ->
                  /\ reg_state' = [reg_state EXCEPT !.vregs_data = 0, !.vmask_data = 0]
                  /\ heap' = [heap1 EXCEPT ![vregs] = -1]
                  /\ regs_ret' = "ENOMEM"
             [] OTHER ->
                  /\ reg_state' = [reg_state EXCEPT
                        !.vregs_data = vregs, !.vmask_data = vmask,
                        !.vregs_size = size.vregs, !.vmask_size = size.vmask,
                        !.num_vregs = FDCA_RVV_NUM_VREGS,
                        !.allocated = TRUE, !.saved = FALSE, !.ref_count = 1]
                  /\ heap' = [heap1 EXCEPT ![vmask] = size.vmask]
                  /\ regs_ret' = "OK"
    /\ UNCHANGED otherThanRegs

\* retain(): a second holder takes a reference (atomic_inc of ref_count);
\* the specification names it, no source file defines it
RegsRetain ==
    /\ reg_state.allocated
    /\ reg_state.ref_count < MaxRefs
    /\ regs_op' = "regs_retain"
    /\ regs_ret' = "void"
    /\ reg_state' = [reg_state EXCEPT !.ref_count = @ + 1]
    /\ UNCHANGED heap
    /\ UNCHANGED otherThanRegs

\* fdca_rvv_regs_free(&regs)
RegsFree ==
    /\ regs_op' = "regs_free"
    /\ regs_ret' = "void"
    /\ LET f == fdca_rvv_regs_free(reg_state)
       IN /\ reg_state' = f.regs
          /\ heap' = IF f.freed
                     THEN [heap EXCEPT ![reg_state.vmask_data] = -1,
                                       ![reg_state.vregs_data] = -1]
                     ELSE heap
    /\ UNCHANGED otherThanRegs

\* fdca_rvv_regs_save(&regs, config), the clock reading t
RegsSave(t) ==
    /\ regs_op' = "regs_save"
    /\ reg_state' = fdca_rvv_regs_save(reg_state, t).regs
    /\ regs_ret' = fdca_rvv_regs_save(reg_state, t).ret
    /\ UNCHANGED heap
    /\ UNCHANGED otherThanRegs

\* fdca_rvv_regs_restore(&regs, config)
RegsRestore ==
    /\ regs_op' = "regs_restore"
    /\ regs_ret' = fdca_rvv_regs_restore(reg_state)
    /\ UNCHANGED <<reg_state, heap>>
    /\ UNCHANGED otherThanRegs

(***************************************************************************)
(* Instruction decoding: src/fdca_rvv_instr.c, src/fdca_rvv_instr.h        *)
(***************************************************************************)
RVV_OPCODE_MASK == 127
RVV_LOAD_FP == 7
RVV_STORE_FP == 39
RVV_MADD == 67
RVV_ARITH == 87

\* enum fdca_vmem_type
FDCA_VMEM_UNIT_STRIDE == 0
FDCA_VMEM_STRIDED == 1
FDCA_VMEM_INDEXED == 2
FDCA_VMEM_SEGMENT == 3
FDCA_VMEM_WHOLE_REG == 4

\* enum fdca_varith_type
FDCA_VARITH_ADD == 0
FDCA_VARITH_SUB == 1
FDCA_VARITH_MUL == 2
FDCA_VARITH_DIV == 3
FDCA_VARITH_AND == 4
FDCA_VARITH_OR == 5
FDCA_VARITH_XOR == 6
FDCA_VARITH_SHIFT == 7
FDCA_VARITH_CMP == 8
FDCA_VARITH_REDUCE == 9

EXTRACT_FUNCT3(op) == ShiftMask(op, 12, 7)
EXTRACT_FUNCT6(op) == ShiftMask(op, 26, 63)
EXTRACT_VD(op)     == ShiftMask(op, 7, 31)
EXTRACT_VS1(op)    == ShiftMask(op, 15, 31)
EXTRACT_VS2_Wide(op) == ShiftMask(op, 20, 63)
EXTRACT_VS2(op)    == ShiftMask(op, 20, 31)
EXTRACT_VM(op)     == ShiftMask(op, 25, 1)

\* the instruction word with the given fields
Encode(base, vd, funct3, vs1, vs2, vm, funct6) ==
    BitsOf(base, 7)
    \cup { b + 7 : b \in BitsOf(vd, 5) }
    \cup { b + 12 : b \in BitsOf(funct3, 3) }
    \cup { b + 15 : b \in BitsOf(vs1, 5) }
    \cup { b + 20 : b \in BitsOf(vs2, 5) }
    \cup { b + 25 : b \in BitsOf(vm, 1) }
    \cup { b + 26 : b \in BitsOf(funct6, 6) }

\* the instruction words the decoder is tried on: every base opcode with
\* every funct3, and the recognised base opcodes with varied operand fields
OpcodeInputs ==
    { Encode(base, 0, f3, 0, 0, vm, 0) : base \in 0..127, f3 \in 0..7, vm \in {0, 1} }
    \cup
    { Encode(base, vd, f3, vs1, vs2, vm, f6) :
        base \in {RVV_LOAD_FP, RVV_STORE_FP, RVV_MADD, RVV_ARITH},
        vd \in {0, 31}, f3 \in {0, 7}, vs1 \in {0, 21}, vs2 \in {0, 10},
        vm \in {0, 1}, f6 \in {0, 32, 37, 63} }

\* the multiply-add base opcode not handled: it falls to the default arm
fdca_rvv_decode_instr_type_NoMadd(op) ==
    LET base_opcode == ShiftMask(op, 0, RVV_OPCODE_MASK)
        funct3 == EXTRACT_FUNCT3(op)
    IN  CASE base_opcode \in {RVV_LOAD_FP, RVV_STORE_FP} -> "VMEM"
          [] base_opcode = RVV_ARITH ->
                IF funct3 \in 0..6 THEN "VARITH"
                ELSE IF funct3 = 7 THEN "VSETVLI"
                ELSE "INVALID"
          [] OTHER -> "INVALID"

\* enum fdca_rvv_instr_type fdca_rvv_decode_instr_type(u32 opcode)
fdca_rvv_decode_instr_type(op) ==
    LET base_opcode == ShiftMask(op, 0, RVV_OPCODE_MASK)
        funct3 == EXTRACT_FUNCT3(op)
    IN  CASE base_opcode \in {RVV_LOAD_FP, RVV_STORE_FP} -> "VMEM"
          [] base_opcode = RVV_ARITH ->
                IF funct3 \in 0..6 THEN "VARITH"
                ELSE IF funct3 = 7 THEN "VSETVLI"
                ELSE "INVALID"
          [] base_opcode = RVV_MADD -> "VARITH"
          [] OTHER -> "INVALID"

\* static enum fdca_vmem_type fdca_rvv_decode_vmem_type(u32 opcode)
fdca_rvv_decode_vmem_type(op) ==
    LET funct3 == EXTRACT_FUNCT3(op)
    IN  CASE funct3 = 0 -> FDCA_VMEM_UNIT_STRIDE
          [] funct3 = 2 -> FDCA_VMEM_STRIDED
          [] funct3 = 3 -> FDCA_VMEM_INDEXED
          [] funct3 = 1 -> FDCA_VMEM_SEGMENT
          [] funct3 = 4 -> FDCA_VMEM_WHOLE_REG
          [] OTHER -> FDCA_VMEM_UNIT_STRIDE

\* the switch of fdca_rvv_decode_varith_type has two labels "case 0x00", one
\* returning FDCA_VARITH_ADD (vadd) and one FDCA_VARITH_REDUCE (vredsum); C
\* does not allow that, so which one a build that accepts it takes is open
Case0Labels == {FDCA_VARITH_ADD, FDCA_VARITH_REDUCE}

\* the submodes whose case labels name the funct6 value f
VarithLabels(f) ==
    (IF f = 0 THEN {FDCA_VARITH_ADD, FDCA_VARITH_REDUCE} ELSE {})
    \cup (IF f = 2 THEN {FDCA_VARITH_SUB} ELSE {})
    \cup (IF f = 37 THEN {FDCA_VARITH_MUL} ELSE {})
    \cup (IF f = 32 THEN {FDCA_VARITH_DIV} ELSE {})
    \cup (IF f = 36 THEN {FDCA_VARITH_AND} ELSE {})
    \cup (IF f = 40 THEN {FDCA_VARITH_OR} ELSE {})
    \cup (IF f = 44 THEN {FDCA_VARITH_XOR} ELSE {})
    \cup (IF f \in {48, 52, 56} THEN {FDCA_VARITH_SHIFT} ELSE {})
    \cup (IF f \in {24, 25, 26, 27} THEN {FDCA_VARITH_CMP} ELSE {})

\* static enum fdca_varith_type fdca_rvv_decode_varith_type(u32 opcode)
fdca_rvv_decode_varith_type(op) ==
    LET funct6 == EXTRACT_FUNCT6(op)
    IN  CASE funct6 = 0 -> case0
          [] funct6 = 2 -> FDCA_VARITH_SUB
          [] funct6 = 37 -> FDCA_VARITH_MUL
          [] funct6 = 32 -> FDCA_VARITH_DIV
          [] funct6 = 36 -> FDCA_VARITH_AND
          [] funct6 = 40 -> FDCA_VARITH_OR
          [] funct6 = 44 -> FDCA_VARITH_XOR
          [] funct6 \in {48, 52, 56} -> FDCA_VARITH_SHIFT
          [] funct6 \in {24, 25, 26, 27} -> FDCA_VARITH_CMP
          [] OTHER -> FDCA_VARITH_ADD

\* struct fdca_rvv_instr after memset(instr, 0, sizeof(*instr)): the enum
\* value 0 is FDCA_RVV_INSTR_VMEM; subtype is the vmem_type / varith_type
\* union and imm the imm / stride / vl_setting union
ZeroInstr == [opcode |-> {}, type |-> "VMEM", subtype |-> 0,
              vd |-> 0, vs1 |-> 0, vs2 |-> 0, vm |-> FALSE, imm |-> 0,
              uses_mask |-> FALSE, modifies_vl |-> FALSE,
              memory_access |-> FALSE, latency |-> 0]

\* every arithmetic instruction given the latency 2
fdca_rvv_parse_instr_FlatLatency(op) ==
    LET type == fdca_rvv_decode_instr_type(op)
        i0 == [ZeroInstr EXCEPT !.opcode = op, !.type = type]
        vm == (EXTRACT_VM(op) = 0)
        i1 == [i0 EXCEPT !.vd = EXTRACT_VD(op), !.vs1 = EXTRACT_VS1(op),
                         !.vs2 = EXTRACT_VS2(op), !.vm = vm]
    IN  IF type = "INVALID" THEN [instr |-> i0, ret |-> "EINVAL"]
        ELSE CASE type = "VMEM" ->
                    [instr |-> [i1 EXCEPT !.subtype = fdca_rvv_decode_vmem_type(op),
                                          !.memory_access = TRUE,
                                          !.uses_mask = vm,
                                          !.latency = 10],
                     ret |-> "OK"]
               [] type = "VARITH" ->
                    LET vt == fdca_rvv_decode_varith_type(op)
                    IN  [instr |-> [i1 EXCEPT !.subtype = vt,
                                              !.memory_access = FALSE,
                                              !.uses_mask = vm,
                                              !.latency = 2],
                         ret |-> "OK"]
               [] type = "VSETVLI" ->
                    [instr |-> [i1 EXCEPT !.imm = EXTRACT_VS1(op),
                                          !.modifies_vl = TRUE,
                                          !.memory_access = FALSE,
                                          !.latency = 1],
                     ret |-> "OK"]
               [] OTHER -> [instr |-> i1, ret |-> "EINVAL"]

\* int fdca_rvv_parse_instr(u32 opcode, struct fdca_rvv_instr *instr):
\* the descriptor and the return value
fdca_rvv_parse_instr(op) ==
    LET type == fdca_rvv_decode_instr_type(op)
        i0 == [ZeroInstr EXCEPT !.opcode = op, !.type = type]
        vm == (EXTRACT_VM(op) = 0)
        i1 == [i0 EXCEPT !.vd = EXTRACT_VD(op), !.vs1 = EXTRACT_VS1(op),
                         !.vs2 = EXTRACT_VS2(op), !.vm = vm]
    IN  IF type = "INVALID" THEN [instr |-> i0, ret |-> "EINVAL"]
        ELSE CASE type = "VMEM" ->
                    [instr |-> [i1 EXCEPT !.subtype = fdca_rvv_decode_vmem_type(op),
                                          !.memory_access = TRUE,
                                          !.uses_mask = vm,
                                          !.latency = 10],
                     ret |-> "OK"]
               [] type = "VARITH" ->
                    LET vt == fdca_rvv_decode_varith_type(op)
                    IN  [instr |-> [i1 EXCEPT !.subtype = vt,
                                              !.memory_access = FALSE,
                                              !.uses_mask = vm,
                                              !.latency = IF vt = FDCA_VARITH_MUL
                                                             \/ vt = FDCA_VARITH_DIV
                                                          THEN 5 ELSE 2],
                         ret |-> "OK"]
               [] type = "VSETVLI" ->
                    [instr |-> [i1 EXCEPT !.imm = EXTRACT_VS1(op),
                                          !.modifies_vl = TRUE,
                                          !.memory_access = FALSE,
                                          !.latency = 1],
                     ret |-> "OK"]
               [] OTHER -> [instr |-> i1, ret |-> "EINVAL"]

InitInstr ==
    /\ opcode \in OpcodeInputs
    /\ case0 \in Case0Labels
    /\ instr = ZeroInstr
    /\ instr_arg = "none"
    /\ instr_op = "none"
    /\ instr_ret = "none"

IdleInstr ==
    /\ opcode = {}
    /\ case0 = FDCA_VARITH_ADD   \* no opcode is decoded here
    /\ instr = ZeroInstr
    /\ instr_arg = "none"
    /\ instr_op = "none"
    /\ instr_ret = "none"

\* fdca_rvv_decode_instr_type(opcode)
DecodeInstrType ==
    /\ instr_op' = "decode_instr_type"
    /\ instr_ret' = fdca_rvv_decode_instr_type(opcode)
    /\ instr_arg' = "none"
    /\ UNCHANGED <<opcode, instr, case0>>
    /\ UNCHANGED otherThanInstr

\* fdca_rvv_parse_instr(opcode, arg)
ParseInstr(arg) ==
    /\ instr_op' = "parse_instr"
    /\ instr_arg' = arg
    /\ IF arg = "NULL"
       THEN /\ instr_ret' = "EINVAL"
            /\ UNCHANGED instr
       ELSE /\ instr' = fdca_rvv_parse_instr(opcode).instr
            /\ instr_ret' = fdca_rvv_parse_instr(opcode).ret
    /\ UNCHANGED <<opcode, case0>>
    /\ UNCHANGED otherThanInstr

(***************************************************************************)
(* fdca_rvv_validate_instr: src/fdca_rvv_instr.c                           *)
(***************************************************************************)
\* the literal of `instr->vl_setting > 1024`
VL_SETTING_MAX == 1024

\* descriptors a caller may build by hand: vd, vs1 and vs2 are u8, type any
\* of the five enum values
RegInputs == {0, 5, 31, 32, 255}
ValidateDescs ==
    {[ZeroInstr EXCEPT !.type = ty, !.subtype = st, !.vd = vd, !.vs1 = vs1,
                       !.vs2 = vs2, !.uses_mask = um, !.imm = imm] :
        ty \in {"VMEM", "VAMO", "VARITH", "VSETVLI", "INVALID"},
        st \in {FDCA_VARITH_ADD, FDCA_VARITH_REDUCE},
        vd \in RegInputs, vs1 \in {0, 5, 32}, vs2 \in {0, 32},
        um \in BOOLEAN,
        imm \in {0, VL_SETTING_MAX, VL_SETTING_MAX + 1}}

fdca_rvv_validate_instr_OffByOne(d) ==
    IF d.vd > FDCA_RVV_NUM_VREGS \/ d.vs1 > FDCA_RVV_NUM_VREGS
          \/ d.vs2 > FDCA_RVV_NUM_VREGS
    THEN "ERANGE"
    ELSE CASE d.type = "VMEM" ->
                IF d.uses_mask /\ d.vd = 0 THEN "EINVAL" ELSE "OK"
           [] d.type = "VARITH" ->
                IF d.subtype = FDCA_VARITH_REDUCE /\ d.vd # d.vs1
                THEN "EINVAL" ELSE "OK"
           [] d.type = "VSETVLI" ->
                IF d.imm > VL_SETTING_MAX THEN "ERANGE" ELSE "OK"
           [] OTHER -> "EINVAL"

\* int fdca_rvv_validate_instr(const struct fdca_rvv_instr *instr), for a
\* non-NULL instr
fdca_rvv_validate_instr(d) ==
    IF d.vd >= FDCA_RVV_NUM_VREGS \/ d.vs1 >= FDCA_RVV_NUM_VREGS
          \/ d.vs2 >= FDCA_RVV_NUM_VREGS
    THEN "ERANGE"
    ELSE CASE d.type = "VMEM" ->
                IF d.uses_mask /\ d.vd = 0 THEN "EINVAL" ELSE "OK"
           [] d.type = "VARITH" ->
                IF d.subtype = FDCA_VARITH_REDUCE /\ d.vd # d.vs1
                THEN "EINVAL" ELSE "OK"
           [] d.type = "VSETVLI" ->
                IF d.imm > VL_SETTING_MAX THEN "ERANGE" ELSE "OK"
           [] OTHER -> "EINVAL"

InitValidate ==
    /\ opcode = {}
    /\ case0 = FDCA_VARITH_ADD   \* no opcode is decoded here
    /\ instr \in ValidateDescs
    /\ instr_arg = "none"
    /\ instr_op = "none"
    /\ instr_ret = "none"

\* the caller fills in the descriptor d
BuildInstr(d) ==
    /\ instr' = d
    /\ instr_op' = "build"
    /\ instr_arg' = "none"
    /\ instr_ret' = "none"
    /\ UNCHANGED <<opcode, case0>>
    /\ UNCHANGED otherThanInstr

\* fdca_rvv_validate_instr(arg): the descriptor is const
ValidateInstr(arg) ==
    /\ instr_op' = "validate_instr"
    /\ instr_arg' = arg
    /\ instr_ret' = IF arg = "NULL" THEN "EINVAL" ELSE fdca_rvv_validate_instr(instr)
    /\ UNCHANGED <<opcode, instr, case0>>
    /\ UNCHANGED otherThanInstr

(***************************************************************************)
(* Hazard query: src/fdca_rvv_instr.c                                      *)
(***************************************************************************)
NullInstr == [null |-> TRUE]

\* the register numbers the hazard query is tried on
HazardRegs == {0, 1, 5}

\* the descriptors handed to the hazard query
HazardInstrs ==
    { [ZeroInstr EXCEPT !.vd = vd, !.vs1 = vs1, !.vs2 = vs2, !.uses_mask = um,
                        !.modifies_vl = mv, !.memory_access = ma] :
        vd \in HazardRegs, vs1 \in HazardRegs, vs2 \in HazardRegs,
        um \in BOOLEAN, mv \in BOOLEAN, ma \in BOOLEAN }

\* a = {vd=5, vs1=1, vs2=2}, b = {vd=3, vs1=5, vs2=4}
ExampleA == [ZeroInstr EXCEPT !.type = "VARITH", !.vd = 5, !.vs1 = 1, !.vs2 = 2]
ExampleB == [ZeroInstr EXCEPT !.type = "VARITH", !.vd = 3, !.vs1 = 5, !.vs2 = 4]

\* the write-after-read check left out
fdca_rvv_instr_conflicts_NoWar(a, b) ==
    IF a = NullInstr \/ b = NullInstr THEN FALSE
    ELSE IF a.modifies_vl \/ b.modifies_vl THEN TRUE
    ELSE IF a.vd = b.vd THEN TRUE
    ELSE IF a.vd = b.vs1 \/ a.vd = b.vs2 THEN TRUE
    ELSE IF (a.uses_mask \/ b.uses_mask) /\ (a.vd = 0 \/ b.vd = 0) THEN TRUE
    ELSE IF a.memory_access /\ b.memory_access THEN TRUE
    ELSE FALSE

\* the mask check looking at the first instruction only
fdca_rvv_instr_conflicts_MaskOfA(a, b) ==
    IF a = NullInstr \/ b = NullInstr THEN FALSE
    ELSE IF a.modifies_vl \/ b.modifies_vl THEN TRUE
    ELSE IF a.vd = b.vd THEN TRUE
    ELSE IF a.vd = b.vs1 \/ a.vd = b.vs2 THEN TRUE
    ELSE IF b.vd = a.vs1 \/ b.vd = a.vs2 THEN TRUE
    ELSE IF a.uses_mask /\ a.vd = 0 THEN TRUE
    ELSE IF a.memory_access /\ b.memory_access THEN TRUE
    ELSE FALSE

\* the modifies_vl flag of the second instruction not looked at
fdca_rvv_instr_conflicts_VlOfA(a, b) ==
    IF a = NullInstr \/ b = NullInstr THEN FALSE
    ELSE IF a.modifies_vl THEN TRUE
    ELSE IF a.vd = b.vd THEN TRUE
    ELSE IF a.vd = b.vs1 \/ a.vd = b.vs2 THEN TRUE
    ELSE IF b.vd = a.vs1 \/ b.vd = a.vs2 THEN TRUE
    ELSE IF (a.uses_mask \/ b.uses_mask) /\ (a.vd = 0 \/ b.vd = 0) THEN TRUE
    ELSE IF a.memory_access /\ b.memory_access THEN TRUE
    ELSE FALSE

\* bool fdca_rvv_instr_conflicts(const struct fdca_rvv_instr *a, *b)
fdca_rvv_instr_conflicts(a, b) ==
    IF a = NullInstr \/ b = NullInstr THEN FALSE
    ELSE IF a.modifies_vl \/ b.modifies_vl THEN TRUE
    ELSE IF a.vd = b.vd THEN TRUE
    ELSE IF a.vd = b.vs1 \/ a.vd = b.vs2 THEN TRUE
    ELSE IF b.vd = a.vs1 \/ b.vd = a.vs2 THEN TRUE
    ELSE IF (a.uses_mask \/ b.uses_mask) /\ (a.vd = 0 \/ b.vd = 0) THEN TRUE
    ELSE IF a.memory_access /\ b.memory_access THEN TRUE
    ELSE FALSE

InitHz ==
    /\ \/ /\ hz_a \in HazardInstrs \cup {NullInstr}
          /\ hz_b \in HazardInstrs \cup {NullInstr}
       \/ /\ hz_a = ExampleA
          /\ hz_b = ExampleB
    /\ hz_op = "none"
    /\ hz_ab = FALSE
    /\ hz_ba = FALSE

IdleHz ==
    /\ hz_a = NullInstr
    /\ hz_b = NullInstr
    /\ hz_op = "none"
    /\ hz_ab = FALSE
    /\ hz_ba = FALSE

\* the scheduler's query, asked in both orders
Conflicts ==
    /\ hz_op' = "conflicts"
    /\ hz_ab' = fdca_rvv_instr_conflicts(hz_a, hz_b)
    /\ hz_ba' = fdca_rvv_instr_conflicts(hz_b, hz_a)
    /\ UNCHANGED <<hz_a, hz_b>>
    /\ UNCHANGED otherThanHz

\* instruction words of the recognised base opcodes, decoded and then
\* handed to the hazard query
DecodedOpcodes ==
    { Encode(base, vd, f3, vs1, vs2, vm, 0) :
        base \in {RVV_LOAD_FP, RVV_MADD, RVV_ARITH},
        vd \in {0, 31}, f3 \in {0, 7}, vs1 \in {0, 21}, vs2 \in {0, 10},
        vm \in {0, 1} }

\* the instructions a decoded one is compared with: a load, an addition and
\* a configuration instruction, on registers of their own
OtherOpcodes ==
    { Encode(RVV_LOAD_FP, 4, 0, 5, 6, 1, 0), Encode(RVV_ARITH, 7, 0, 8, 9, 1, 0),
      Encode(RVV_ARITH, 1, 7, 2, 3, 1, 0) }

InitDecodeHz ==
    /\ opcode \in DecodedOpcodes
    /\ case0 \in Case0Labels
    /\ instr = ZeroInstr
    /\ instr_arg = "none"
    /\ instr_op = "none"
    /\ instr_ret = "none"
    /\ IdleHz

\* fdca_rvv_instr_conflicts(&instr, &other) and (&other, &instr), where
\* instr is the descriptor fdca_rvv_parse_instr filled and other the one it
\* fills for the word op
ConflictsDecoded(op) ==
    /\ instr_op = "parse_instr"
    /\ instr_arg = "instr"
    /\ instr_ret = "OK"
    /\ fdca_rvv_parse_instr(op).ret = "OK"
    /\ hz_op' = "conflicts"
    /\ hz_a' = instr
    /\ hz_b' = fdca_rvv_parse_instr(op).instr
    /\ hz_ab' = fdca_rvv_instr_conflicts(instr, fdca_rvv_parse_instr(op).instr)
    /\ hz_ba' = fdca_rvv_instr_conflicts(fdca_rvv_parse_instr(op).instr, instr)
    /\ UNCHANGED otherThanHz

(***************************************************************************)
(* VRF register allocator: src/fdca_vrf.c                                  *)
(***************************************************************************)
\* the allocation counter is an atomic64; the model stops allocating here
MaxVrfAllocs == 34

\* lane accesses counted
MaxLaneAccesses == 2

\* the register numbers handed to fdca_vrf_free_reg
FreeRegInputs == {-1, 0, 7, 31, 32}

\* find_first_zero_bit(bitmap, size)
find_first_zero_bit(bitmap, size) ==
    IF \E r \in 0..(size - 1) : r \notin bitmap
    THEN CHOOSE r \in 0..(size - 1) :
            r \notin bitmap /\ \A q \in 0..(size - 1) : q \notin bitmap => r <= q
    ELSE size

\* the last register never handed out
VrfAllocResult_OffByOne(bitmap) ==
    LET reg == find_first_zero_bit(bitmap, FDCA_RVV_NUM_VREGS)
    IN  IF reg < FDCA_RVV_NUM_VREGS - 1
        THEN [err |-> "OK", reg |-> reg, bitmap |-> bitmap \cup {reg}]
        ELSE [err |-> "ENOSPC", reg |-> -1, bitmap |-> bitmap]

\* the locked section of fdca_vrf_alloc_reg: the value returned and the
\* bitmap left
VrfAllocResult(bitmap) ==
    LET reg == find_first_zero_bit(bitmap, FDCA_RVV_NUM_VREGS)
    IN  IF reg < FDCA_RVV_NUM_VREGS
        THEN [err |-> "OK", reg |-> reg, bitmap |-> bitmap \cup {reg}]
        ELSE [err |-> "ENOSPC", reg |-> -1, bitmap |-> bitmap]

\* the bus address pci_ioremap_bar returned for the unit's window
VpuWindow == 65536

\* the window of each lane is 4 KB
LaneStride == 4096

\* kzalloc'd lane_info
ZeroLaneInfo ==
    [num_lanes |-> 0, lane_width |-> 0, lane_bases |-> [i \in 0..15 |-> 0]]

NoLaneIo == [dir |-> "none", addr |-> 0, size |-> 0]

\* lane_info as fdca_vrf_init fills it from the configuration and the
\* unit's MMIO base
LaneInfoOf(config, base) ==
    [num_lanes  |-> config.num_lanes,
     lane_width |-> config.vlen \div config.num_lanes,
     lane_bases |-> [i \in 0..15 |->
                       IF i < config.num_lanes THEN base + i * LaneStride ELSE 0]]

IdleVrf ==
    /\ vrf_mgr = "NULL"
    /\ allocated_regs = {}
    /\ reg_allocations = 0
    /\ reg_frees = 0
    /\ vrf_op = "none"
    /\ vrf_ret = [err |-> "none", reg |-> -1]
    /\ vpu_base = VpuWindow
    /\ lane_info = ZeroLaneInfo
    /\ lane_accesses = 0
    /\ lane_io = NoLaneIo

InitVrf == IdleVrf

\* before fdca_vrf_init: the unit is present and mapped, or absent, in which
\* case fdca_setup_compute_units has left its mmio_base NULL
InitLane ==
    /\ vrf_mgr = "NULL"
    /\ allocated_regs = {}
    /\ reg_allocations = 0
    /\ reg_frees = 0
    /\ vrf_op = "none"
    /\ vrf_ret = [err |-> "none", reg |-> -1]
    /\ vpu_base \in {0, VpuWindow}
    /\ lane_info = ZeroLaneInfo
    /\ lane_accesses = 0
    /\ lane_io = NoLaneIo

\* fdca_vrf_init(fdev), the kzalloc succeeding or not
VrfInit(ok) ==
    /\ vrf_op' = "init"
    /\ IF ~ok
       THEN /\ vrf_ret' = [err |-> "ENOMEM", reg |-> -1]
            /\ UNCHANGED <<vrf_mgr, allocated_regs, reg_allocations, reg_frees,
                           lane_info, lane_accesses>>
       ELSE /\ vrf_mgr' = "mgr"
            /\ allocated_regs' = {}
            /\ reg_allocations' = 0
            /\ reg_frees' = 0
            /\ lane_info' = LaneInfoOf(rvv_config, vpu_base)
            /\ lane_accesses' = 0
            /\ vrf_ret' = [err |-> "OK", reg |-> -1]
    /\ lane_io' = NoLaneIo
    /\ UNCHANGED vpu_base
    /\ UNCHANGED otherThanVrf

\* fdca_vrf_fini(fdev)
VrfFini ==
    /\ vrf_op' = "fini"
    /\ vrf_ret' = [err |-> "void", reg |-> -1]
    /\ IF vrf_mgr = "NULL"
       THEN UNCHANGED <<vrf_mgr, allocated_regs, reg_allocations, reg_frees,
                        lane_info, lane_accesses>>
       ELSE /\ vrf_mgr' = "NULL"
            /\ allocated_regs' = {}
            /\ reg_allocations' = 0
            /\ reg_frees' = 0
            /\ lane_info' = ZeroLaneInfo
            /\ lane_accesses' = 0
    /\ lane_io' = NoLaneIo
    /\ UNCHANGED vpu_base
    /\ UNCHANGED otherThanVrf

\* fdca_vrf_alloc_reg()
VrfAllocReg ==
    /\ reg_allocations < MaxVrfAllocs
    /\ vrf_op' = "alloc"
    /\ IF vrf_mgr = "NULL"
       THEN /\ vrf_ret' = [err |-> "ENODEV", reg |-> -1]
            /\ UNCHANGED <<allocated_regs, reg_allocations>>
       ELSE LET r == VrfAllocResult(allocated_regs)
            IN  /\ vrf_ret' = [err |-> r.err, reg |-> r.reg]
                /\ allocated_regs' = r.bitmap
                /\ reg_allocations' =
                      IF r.err = "OK" THEN reg_allocations + 1 ELSE reg_allocations
    /\ lane_io' = NoLaneIo
    /\ UNCHANGED <<vrf_mgr, reg_frees, vpu_base, lane_info, lane_accesses>>
    /\ UNCHANGED otherThanVrf

\* fdca_vrf_free_reg(reg)
VrfFreeReg(reg) ==
    /\ vrf_op' = "free"
    /\ vrf_ret' = [err |-> "void", reg |-> reg]
    /\ IF vrf_mgr = "NULL" \/ reg < 0 \/ reg >= FDCA_RVV_NUM_VREGS
       THEN UNCHANGED <<allocated_regs, reg_frees>>
       ELSE /\ allocated_regs' = allocated_regs \ {reg}
            /\ reg_frees' = IF reg \in allocated_regs THEN reg_frees + 1 ELSE reg_frees
    /\ lane_io' = NoLaneIo
    /\ UNCHANGED <<vrf_mgr, reg_allocations, vpu_base, lane_info, lane_accesses>>
    /\ UNCHANGED otherThanVrf

\* the arguments the lane accessors are called with
LaneRegInputs == {-1, 0, 7, 31, 32}
LaneInputs4 == {-1, 0, 1, 3, 4}
LaneSize == 32

\* `lane >= vrf_mgr->lane_info.num_lanes`: lane is an int and num_lanes a
\* u32, so lane is converted to unsigned and a negative lane is above every
\* lane count
LaneAboveCount(lane, num_lanes) == lane < 0 \/ lane >= num_lanes

\* the address the transfer starts at
LaneAddr(reg, lane) ==
    lane_info.lane_bases[lane] + ((reg * lane_info.lane_width) \div 8)

\* fdca_vrf_read_lane / fdca_vrf_write_lane (reg, lane, buffer, size): the
\* two differ in the direction of the copy only.  The copy through a lane
\* base computed from a NULL unit base touches no mapped window: it faults
\* or goes to whatever is at that address.
VrfLaneAccess(dir, reg, lane, fault) ==
    /\ lane_accesses < MaxLaneAccesses
    /\ vrf_op' = dir
    /\ IF vrf_mgr = "NULL" \/ reg < 0 \/ reg >= FDCA_RVV_NUM_VREGS
            \/ LaneAboveCount(lane, lane_info.num_lanes)
       THEN /\ ~fault
            /\ vrf_ret' = [err |-> "EINVAL", reg |-> reg]
            /\ lane_io' = NoLaneIo
            /\ UNCHANGED lane_accesses
       ELSE IF lane_info.lane_bases[lane] = 0
       THEN /\ ~fault
            /\ vrf_ret' = [err |-> "ENODEV", reg |-> reg]
            /\ lane_io' = NoLaneIo
            /\ UNCHANGED lane_accesses
       ELSE IF fault
       THEN /\ vpu_base = 0
            /\ vrf_ret' = [err |-> "OOPS", reg |-> reg]
            /\ lane_io' = NoLaneIo
            /\ UNCHANGED lane_accesses
       ELSE /\ vrf_ret' = [err |-> "OK", reg |-> reg]
            /\ lane_io' = [dir |-> dir, addr |-> LaneAddr(reg, lane), size |-> LaneSize]
            /\ lane_accesses' = lane_accesses + 1
    /\ UNCHANGED <<vrf_mgr, allocated_regs, reg_allocations, reg_frees, vpu_base, lane_info>>
    /\ UNCHANGED otherThanVrf

(***************************************************************************)
(* The allocator called from several threads: src/fdca_vrf.c.  Each call   *)
(* is taken in steps: the check of vrf_mgr, spin_lock, the statements of   *)
(* the locked section, spin_unlock and the return.                         *)
(***************************************************************************)
VrfThreads == {1, 2}

\* allocations made by the threads together
MaxConcAllocs == 4

IdleVrfThread ==
    [pc |-> "idle", op |-> "none", reg |-> -1, ret |-> [err |-> "none", reg |-> -1]]

IdleVrfConc ==
    /\ vrf_thr = [t \in VrfThreads |-> IdleVrfThread]
    /\ vrf_lock = 0

InitVrfConc == IdleVrfConc

\* the state fdca_vrf_init leaves when it succeeds, or the one before it
InitVrfMgr ==
    /\ vrf_mgr \in {"NULL", "mgr"}
    /\ allocated_regs = {}
    /\ reg_allocations = 0
    /\ reg_frees = 0
    /\ vrf_op = "none"
    /\ vrf_ret = [err |-> "none", reg |-> -1]
    /\ vpu_base = VpuWindow
    /\ lane_info = IF vrf_mgr = "NULL" THEN ZeroLaneInfo
                   ELSE LaneInfoOf([vlen |-> 1024, elen |-> 64, num_lanes |-> 4,
                                    vlenb |-> 128], VpuWindow)
    /\ lane_accesses = 0
    /\ lane_io = NoLaneIo

\* a spinning lock taken while another thread holds it
spin_lock_NoExclusion(lock) == TRUE

\* spin_lock(&vrf_mgr->alloc_lock) gets past its spin: nobody holds the lock
spin_lock(lock) == lock = 0

\* fdca_vrf_alloc_reg(): `if (!vrf_mgr) return -ENODEV;`
VrfcAllocCall(t) ==
    /\ vrf_thr[t].pc = "idle"
    /\ reg_allocations < MaxConcAllocs
    /\ vrf_thr' = [vrf_thr EXCEPT ![t] =
          IF vrf_mgr = "NULL"
          THEN [pc |-> "idle", op |-> "alloc", reg |-> -1,
                ret |-> [err |-> "ENODEV", reg |-> -1]]
          ELSE [pc |-> "lock", op |-> "alloc", reg |-> -1,
                ret |-> [err |-> "none", reg |-> -1]]]
    /\ UNCHANGED <<vrf_lock, vrfVars>>
    /\ UNCHANGED otherThanVrfConc

\* fdca_vrf_free_reg(reg): `if (!vrf_mgr || reg < 0 || reg >= 32) return;`
VrfcFreeCall(t, reg) ==
    /\ vrf_thr[t].pc = "idle"
    /\ vrf_thr' = [vrf_thr EXCEPT ![t] =
          IF vrf_mgr = "NULL" \/ reg < 0 \/ reg >= FDCA_RVV_NUM_VREGS
          THEN [pc |-> "idle", op |-> "free", reg |-> reg,
                ret |-> [err |-> "void", reg |-> reg]]
          ELSE [pc |-> "lock", op |-> "free", reg |-> reg,
                ret |-> [err |-> "none", reg |-> reg]]]
    /\ UNCHANGED <<vrf_lock, vrfVars>>
    /\ UNCHANGED otherThanVrfConc

\* spin_lock(&vrf_mgr->alloc_lock)
VrfcLock(t) ==
    /\ vrf_thr[t].pc = "lock"
    /\ spin_lock(vrf_lock)
    /\ vrf_lock' = t
    /\ vrf_thr' = [vrf_thr EXCEPT ![t].pc =
                      IF vrf_thr[t].op = "alloc" THEN "find" ELSE "clear"]
    /\ UNCHANGED vrfVars
    /\ UNCHANGED otherThanVrfConc

\* reg = find_first_zero_bit(vrf_mgr->allocated_regs, FDCA_RVV_NUM_VREGS)
VrfcFind(t) ==
    /\ vrf_thr[t].pc = "find"
    /\ vrf_thr' = [vrf_thr EXCEPT
                      ![t].pc = "set",
                      ![t].reg = find_first_zero_bit(allocated_regs, FDCA_RVV_NUM_VREGS)]
    /\ UNCHANGED <<vrf_lock, vrfVars>>
    /\ UNCHANGED otherThanVrfConc

\* `if (reg < 32) { set_bit(...); atomic64_inc(&reg_allocations); }
\*  else reg = -ENOSPC;`
VrfcSet(t) ==
    /\ vrf_thr[t].pc = "set"
    /\ IF vrf_thr[t].reg < FDCA_RVV_NUM_VREGS
       THEN /\ allocated_regs' = allocated_regs \cup {vrf_thr[t].reg}
            /\ reg_allocations' = reg_allocations + 1
            /\ vrf_thr' = [vrf_thr EXCEPT
                              ![t].pc = "unlock",
                              ![t].ret = [err |-> "OK", reg |-> vrf_thr[t].reg]]
       ELSE /\ UNCHANGED <<allocated_regs, reg_allocations>>
            /\ vrf_thr' = [vrf_thr EXCEPT
                              ![t].pc = "unlock",
                              ![t].ret = [err |-> "ENOSPC", reg |-> -1]]
    /\ UNCHANGED <<vrf_lock, vrf_mgr, reg_frees, vrf_op, vrf_ret, vpu_base, lane_info,
                   lane_accesses, lane_io>>
    /\ UNCHANGED otherThanVrfConc

\* `if (test_and_clear_bit(reg, ...)) atomic64_inc(&reg_frees);`
VrfcClear(t) ==
    /\ vrf_thr[t].pc = "clear"
    /\ allocated_regs' = allocated_regs \ {vrf_thr[t].reg}
    /\ reg_frees' = IF vrf_thr[t].reg \in allocated_regs THEN reg_frees + 1 ELSE reg_frees
    /\ vrf_thr' = [vrf_thr EXCEPT ![t].pc = "unlock",
                                  ![t].ret = [err |-> "void", reg |-> vrf_thr[t].reg]]
    /\ UNCHANGED <<vrf_lock, vrf_mgr, reg_allocations, vrf_op, vrf_ret, vpu_base,
                   lane_info, lane_accesses, lane_io>>
    /\ UNCHANGED otherThanVrfConc

\* spin_unlock(&vrf_mgr->alloc_lock) and the return
VrfcUnlock(t) ==
    /\ vrf_thr[t].pc = "unlock"
    /\ vrf_lock' = 0
    /\ vrf_thr' = [vrf_thr EXCEPT ![t].pc = "idle"]
    /\ UNCHANGED vrfVars
    /\ UNCHANGED otherThanVrfConc

(***************************************************************************)
(* Fences: src/fdca_sync.c                                                 *)
(***************************************************************************)
\* fences created, and complete() calls a fence has not yet been woken for
MaxFences == 2
MaxDone == 2

SyncThreads == {1, 2}

\* the ids signal and wait are called with: 0, created ones and one above
FenceIdInputs == 0..(MaxFences + 1)

\* the timeout_ms arguments: 0 waits without a limit
TimeoutInputs == {0, 100}

IdleSyncThread == [pc |-> "idle", id |-> 0, timeout |-> 0, ret |-> "none"]

IdleSync ==
    /\ sync_objects = <<>>
    /\ fence_counter = 0
    /\ sync_thr = [t \in SyncThreads |-> IdleSyncThread]
    /\ sync_call = [op |-> "none", id |-> 0, ret |-> "none"]

InitSync == IdleSync

\* list_for_each_entry(obj, &sync_objects, list) with the test of fence_id:
\* the position of the first object with that id, 0 when there is none
SyncFind(list, id) ==
    IF \E i \in 1..Len(list) : list[i].fence_id = id
    THEN CHOOSE i \in 1..Len(list) :
            list[i].fence_id = id /\ \A j \in 1..(i - 1) : list[j].fence_id # id
    ELSE 0

\* complete(&obj->completion): done is incremented and one waiter woken
complete(x) == [x EXCEPT !.done = @ + 1]

\* u32 fdca_sync_create_fence(void), the kzalloc succeeding or not
SyncCreateFence(ok) ==
    /\ fence_counter < MaxFences
    /\ IF ~ok
       THEN /\ sync_call' = [op |-> "create", id |-> 0, ret |-> "0"]
            /\ UNCHANGED <<sync_objects, fence_counter>>
       ELSE /\ fence_counter' = fence_counter + 1
            /\ sync_objects' = Append(sync_objects,
                  [fence_id |-> fence_counter + 1, done |-> 0, signaled |-> FALSE])
            /\ sync_call' = [op |-> "create", id |-> fence_counter + 1, ret |-> "id"]
    /\ UNCHANGED sync_thr
    /\ UNCHANGED otherThanSync

\* int fdca_sync_signal_fence(fence_id)
SyncSignalFence(id) ==
    /\ LET i == SyncFind(sync_objects, id)
       IN IF i = 0
          THEN /\ sync_call' = [op |-> "signal", id |-> id, ret |-> "ENOENT"]
               /\ UNCHANGED sync_objects
          ELSE /\ sync_objects[i].done < MaxDone
               /\ sync_objects' = [sync_objects EXCEPT
                                     ![i] = complete([@ EXCEPT !.signaled = TRUE])]
               /\ sync_call' = [op |-> "signal", id |-> id, ret |-> "OK"]
    /\ UNCHANGED <<fence_counter, sync_thr>>
    /\ UNCHANGED otherThanSync

\* int fdca_sync_wait_fence(fence_id, timeout_ms) up to the wait: the list
\* walk under sync_lock, and the return of -ENOENT when it finds nothing
SyncWaitCall(t, id, timeout) ==
    /\ sync_thr[t].pc = "idle"
    /\ sync_thr' = [sync_thr EXCEPT ![t] =
          IF SyncFind(sync_objects, id) = 0
          THEN [pc |-> "idle", id |-> id, timeout |-> timeout, ret |-> "ENOENT"]
          ELSE [pc |-> "wait", id |-> id, timeout |-> timeout, ret |-> "none"]]
    /\ UNCHANGED <<sync_objects, fence_counter, sync_call>>
    /\ UNCHANGED otherThanSync

\* wait_for_completion / wait_for_completion_timeout finds done > 0, takes
\* one off it and returns; fdca_sync_wait_fence returns 0
SyncWaitDone(t) ==
    /\ sync_thr[t].pc = "wait"
    /\ LET i == SyncFind(sync_objects, sync_thr[t].id)
       IN /\ sync_objects[i].done > 0
          /\ sync_objects' = [sync_objects EXCEPT
                ![i].done = @ - 1]
    /\ sync_thr' = [sync_thr EXCEPT ![t].pc = "idle", ![t].ret = "OK"]
    /\ UNCHANGED <<fence_counter, sync_call>>
    /\ UNCHANGED otherThanSync

\* wait_for_completion_timeout returns 0 after timeout_ms with done still 0;
\* fdca_sync_wait_fence returns -ETIMEDOUT
SyncWaitTimeout(t) ==
    /\ sync_thr[t].pc = "wait"
    /\ sync_thr[t].timeout # 0
    /\ sync_objects[SyncFind(sync_objects, sync_thr[t].id)].done = 0
    /\ sync_thr' = [sync_thr EXCEPT ![t].pc = "idle", ![t].ret = "ETIMEDOUT"]
    /\ UNCHANGED <<sync_objects, fence_counter, sync_call>>
    /\ UNCHANGED otherThanSync

(***************************************************************************)
(* Vector memory operations: src/fdca_vector_mem.c                         *)
(***************************************************************************)
\* the completion poll reads the status register at most MaxPolls times
\* before the 1000 ms deadline has passed
MaxPolls == 2

\* the DMA-coherent buffers the allocator can hand out; 0 is the NULL pointer
DmaBufIds == {1, 2}

\* enum fdca_vmem_type, and one value outside it
VmemTypes == FDCA_VMEM_UNIT_STRIDE..(FDCA_VMEM_WHOLE_REG + 1)
ElementCounts == {0, 4}
ElementSizes == {8}
StrideInputs == {0, 16}
\* bits 0 (completion) and 1 (error) of the status register
StatusInputs == 0..3

\* u32 * u32 in C is computed in 32 bits.  The product is built here a byte
\* at a time, as in long multiplication: Byte(a, i) is byte i of a,
\* MulColumn the sum of the byte products of weight 256^k, MulCarry the
\* carry into column k and MulDigit byte k of the 64-bit product.
Byte(a, i) == (a \div <<1, 256, 65536, 16777216>>[i + 1]) % 256

MulColumn(a, b, k) ==
    LET t(i) == IF k - i \in 0..3 THEN Byte(a, i) * Byte(b, k - i) ELSE 0
    IN  t(0) + t(1) + t(2) + t(3)

RECURSIVE MulCarry(_, _, _)
MulCarry(a, b, k) ==
    IF k = 0 THEN 0 ELSE (MulColumn(a, b, k - 1) + MulCarry(a, b, k - 1)) \div 256

MulDigit(a, b, k) == (MulColumn(a, b, k) + MulCarry(a, b, k)) % 256

\* the low 32 bits of a * b: what the u32 multiplication yields.  Two
\* operands below 2^15 have a product below 2^30, which is those bits.
Mul32(a, b) ==
    IF a < 32768 /\ b < 32768 THEN a * b
    ELSE MulDigit(a, b, 0) + 256 * MulDigit(a, b, 1) + 65536 * MulDigit(a, b, 2)
            + 16777216 * MulDigit(a, b, 3)

\* the bits of a * b above bit 31, which the u32 multiplication drops
MulHigh32(a, b) ==
    IF a < 32768 /\ b < 32768 THEN 0
    ELSE MulDigit(a, b, 4) + 256 * MulDigit(a, b, 5) + 65536 * MulDigit(a, b, 6)
            + 16777216 * MulDigit(a, b, 7)

\* kzalloc(sizeof(*op)) in fdca_vector_mem_create_op
ZeroOp == [type |-> 0, base_addr |-> 0, stride |-> 0, indices |-> 0,
           num_elements |-> 0, element_size |-> 0, is_load |-> FALSE,
           dma_addr |-> 0, cpu_addr |-> 0, total_size |-> 0]

\* the descriptors create_op, set_stride and set_indices build; indices is 1
\* once set_indices has stored an array of num_elements entries
VmemOps ==
    { [ZeroOp EXCEPT !.type = ty, !.base_addr = 4096, !.num_elements = n,
                     !.element_size = es, !.stride = st, !.is_load = ld,
                     !.indices = ix] :
        ty \in VmemTypes, n \in ElementCounts, es \in ElementSizes,
        st \in StrideInputs, ld \in BOOLEAN, ix \in {0, 1} }

\* descriptors with element counts, element sizes and strides of 2^16
WideVmemOps ==
    { [ZeroOp EXCEPT !.type = ty, !.base_addr = 4096, !.num_elements = n,
                     !.element_size = es, !.stride = st, !.is_load = TRUE,
                     !.indices = 1] :
        ty \in VmemTypes, n \in {4, 65536}, es \in {8, 65536},
        st \in {16, 65536} }

\* dma_alloc_coherent: the lowest free buffer, 0 when the allocation fails
dma_alloc_coherent(live, fail) ==
    IF fail \/ live = DmaBufIds THEN 0
    ELSE CHOOSE b \in DmaBufIds \ live : \A c \in DmaBufIds \ live : b <= c

\* The functions below work on m = [op, live, log, writes]: the descriptor,
\* the live DMA buffers, and the DMA calls and register writes made so far.
fdca_vector_mem_prepare_dma(m, fail) ==
    LET op == m.op
        known == op.type \in {FDCA_VMEM_UNIT_STRIDE, FDCA_VMEM_STRIDED,
                              FDCA_VMEM_INDEXED, FDCA_VMEM_SEGMENT}
        size == IF op.type = FDCA_VMEM_STRIDED
                THEN Mul32(op.num_elements, op.stride)
                ELSE Mul32(op.num_elements, op.element_size)
        b == dma_alloc_coherent(m.live, fail)
        call == [ev |-> "alloc", by |-> "staging", buf |-> b, size |-> size]
    IN IF ~known THEN [m |-> m, ret |-> "EINVAL"]
       ELSE IF b = 0
       THEN [m |-> [m EXCEPT !.op = [op EXCEPT !.total_size = size, !.cpu_addr = 0],
                             !.log = Append(@, call)],
             ret |-> "ENOMEM"]
       ELSE [m |-> [m EXCEPT !.op = [op EXCEPT !.total_size = size,
                                               !.cpu_addr = b, !.dma_addr = b],
                             !.live = @ \cup {b},
                             !.log = Append(@, call)],
             ret |-> "OK"]

fdca_vector_mem_cleanup_dma_KeepPointer(m) ==
    IF m.op.cpu_addr # 0
    THEN [m EXCEPT !.live = @ \ {m.op.cpu_addr},
                   !.log = Append(@, [ev |-> "free", by |-> "staging",
                                      buf |-> m.op.cpu_addr,
                                      size |-> m.op.total_size])]
    ELSE m

fdca_vector_mem_cleanup_dma(m) ==
    IF m.op.cpu_addr # 0
    THEN [m EXCEPT !.live = @ \ {m.op.cpu_addr},
                   !.log = Append(@, [ev |-> "free", by |-> "staging",
                                      buf |-> m.op.cpu_addr,
                                      size |-> m.op.total_size]),
                   !.op = [@ EXCEPT !.cpu_addr = 0]]
    ELSE m

\* ctrl_reg = (op->is_load ? BIT(0) : 0) | (type << 4)
CtrlReg(op, type) == (IF op.is_load THEN 1 ELSE 0) + 16 * type

fdca_vector_mem_unit_stride(m) ==
    LET op == m.op
    IN [m |-> [m EXCEPT !.writes = @ \o
                 << <<256, op.base_addr>>, <<264, op.num_elements>>,
                    <<268, op.element_size>>, <<272, op.dma_addr>>,
                    <<280, CtrlReg(op, FDCA_VMEM_UNIT_STRIDE)>>, <<284, 1>> >>],
        ret |-> "OK"]

fdca_vector_mem_strided(m) ==
    LET op == m.op
    IN [m |-> [m EXCEPT !.writes = @ \o
                 << <<288, op.base_addr>>, <<296, op.stride>>,
                    <<300, op.num_elements>>, <<304, op.element_size>>,
                    <<308, op.dma_addr>>,
                    <<312, CtrlReg(op, FDCA_VMEM_STRIDED)>>, <<316, 1>> >>],
        ret |-> "OK"]

\* memcpy(indices_cpu, op->indices, indices_size) reads through op->indices;
\* with a NULL array and a non-zero size the kernel oopses in the call
fdca_vector_mem_indexed(m, fail) ==
    LET op == m.op
        size == op.num_elements * 4
        b == dma_alloc_coherent(m.live, fail)
        got == [m EXCEPT !.live = @ \cup {b},
                         !.log = Append(@, [ev |-> "alloc", by |-> "indices",
                                            buf |-> b, size |-> size])]
    IN IF b = 0
       THEN [m |-> [m EXCEPT !.log = Append(@, [ev |-> "alloc", by |-> "indices",
                                                 buf |-> 0, size |-> size])],
             ret |-> "ENOMEM"]
       ELSE IF op.indices = 0 /\ size > 0
       THEN [m |-> got, ret |-> "OOPS"]
       ELSE [m |-> [got EXCEPT
                      !.writes = @ \o
                        << <<320, op.base_addr>>, <<328, b>>,
                           <<336, op.num_elements>>, <<340, op.element_size>>,
                           <<344, op.dma_addr>>,
                           <<352, CtrlReg(op, FDCA_VMEM_INDEXED)>>, <<356, 1>> >>,
                      !.live = @ \ {b},
                      !.log = Append(@, [ev |-> "free", by |-> "indices",
                                         buf |-> b, size |-> size])],
             ret |-> "OK"]

fdca_vector_mem_segment(m) ==
    LET op == m.op
    IN [m |-> [m EXCEPT !.writes = @ \o
                 << <<384, op.base_addr>>, <<392, op.stride>>,
                    <<396, op.num_elements>>, <<400, op.element_size>>,
                    <<404, op.dma_addr>>,
                    <<408, CtrlReg(op, FDCA_VMEM_SEGMENT)>>, <<412, 1>> >>],
        ret |-> "OK"]

\* the deadline ignored
fdca_vector_mem_wait_completion_NoDeadline(status, late) ==
    IF status % 2 = 1
    THEN (IF (status \div 2) % 2 = 1 THEN "EIO" ELSE "OK")
    ELSE "again"

\* One pass of the polling loop: the status read, then time_after(jiffies,
\* timeout); "again" is cpu_relax() and the next pass.
fdca_vector_mem_wait_completion(status, late) ==
    IF status % 2 = 1
    THEN (IF (status \div 2) % 2 = 1 THEN "EIO" ELSE "OK")
    ELSE IF late THEN "ETIMEDOUT"
    ELSE "again"

\* fdca_vector_mem_execute up to the completion poll: pc is "wait" when the
\* call goes on to poll, "done" when it has returned.  fault is what goes
\* wrong in the call: a NULL argument ("null"), the staging allocation failing
\* ("staging"), the index-array allocation failing ("indices"), or "none".
VmemFaults == {"none", "null", "staging", "indices"}

fdca_vector_mem_execute(op, present, live, fault) ==
    LET m0 == [op |-> op, live |-> live, log |-> <<>>, writes |-> <<>>]
        p == fdca_vector_mem_prepare_dma(m0, fault = "staging")
        k == CASE op.type = FDCA_VMEM_UNIT_STRIDE -> fdca_vector_mem_unit_stride(p.m)
               [] op.type = FDCA_VMEM_STRIDED -> fdca_vector_mem_strided(p.m)
               [] op.type = FDCA_VMEM_INDEXED -> fdca_vector_mem_indexed(p.m, fault = "indices")
               [] op.type = FDCA_VMEM_SEGMENT -> fdca_vector_mem_segment(p.m)
               [] OTHER -> [m |-> p.m, ret |-> "EINVAL"]
    IN IF fault = "null" THEN [m |-> m0, ret |-> "EINVAL", pc |-> "done"]
       ELSE IF ~present THEN [m |-> m0, ret |-> "ENODEV", pc |-> "done"]
       ELSE IF p.ret # "OK" THEN [m |-> p.m, ret |-> p.ret, pc |-> "done"]
       ELSE IF k.ret = "OOPS" THEN [m |-> k.m, ret |-> "OOPS", pc |-> "oops"]
       ELSE IF k.ret # "OK"
       THEN [m |-> fdca_vector_mem_cleanup_dma(k.m), ret |-> k.ret, pc |-> "done"]
       ELSE [m |-> k.m, ret |-> "none", pc |-> "wait"]

InitVmem ==
    /\ vpu_present \in BOOLEAN
    /\ vmem_op = ZeroOp
    /\ dma_live = {}
    /\ vmem_log = <<>>
    /\ vmem_writes = <<>>
    /\ vmem_seen = <<>>
    /\ vmem_polls = 0
    /\ vmem_pc = "idle"
    /\ vmem_ret = "none"

IdleVmem ==
    /\ vpu_present = TRUE
    /\ vmem_op = ZeroOp
    /\ dma_live = {}
    /\ vmem_log = <<>>
    /\ vmem_writes = <<>>
    /\ vmem_seen = <<>>
    /\ vmem_polls = 0
    /\ vmem_pc = "idle"
    /\ vmem_ret = "none"

\* A call of fdca_vector_mem_execute on a new descriptor, or again on the one
\* the last call returned from, up to its return or its entry into the poll.
VmemExecute(op, fault) ==
    /\ vmem_pc # "wait"
    /\ op \in VmemOps \cup WideVmemOps \/ (vmem_pc = "done" /\ op = vmem_op)
    /\ LET r == fdca_vector_mem_execute(op, vpu_present, dma_live, fault)
       IN /\ vmem_op' = r.m.op
          /\ dma_live' = r.m.live
          /\ vmem_log' = r.m.log
          /\ vmem_writes' = r.m.writes
          /\ vmem_pc' = r.pc
          /\ vmem_ret' = r.ret
    /\ vmem_seen' = <<>>
    /\ vmem_polls' = 0
    /\ UNCHANGED vpu_present
    /\ UNCHANGED otherThanVmem

\* One pass of the completion poll and, when it ends the wait, the cleanup
\* and return of execute.  The deadline has passed by pass MaxPolls + 1.
VmemPoll(status, late) ==
    /\ vmem_pc = "wait"
    /\ vmem_polls < MaxPolls \/ late
    /\ LET r == fdca_vector_mem_wait_completion(status, late)
           c == fdca_vector_mem_cleanup_dma(
                    [op |-> vmem_op, live |-> dma_live, log |-> vmem_log,
                     writes |-> vmem_writes])
       IN IF r = "again"
          THEN UNCHANGED <<vmem_op, dma_live, vmem_log, vmem_pc, vmem_ret>>
          ELSE /\ vmem_op' = c.op
               /\ dma_live' = c.live
               /\ vmem_log' = c.log
               /\ vmem_pc' = "done"
               /\ vmem_ret' = r
    /\ vmem_seen' = Append(vmem_seen, status)
    /\ vmem_polls' = vmem_polls + 1
    /\ UNCHANGED <<vpu_present, vmem_writes>>
    /\ UNCHANGED otherThanVmem

(***************************************************************************)
(* Vector contexts and the state manager: src/fdca_rvv_state.c             *)
(***************************************************************************)
\* the number of contexts created in a run, and of calls made in it
MaxContexts == 2
MaxCalls == 7

CtxIds == 1..MaxContexts

FDCA_RVV_BUFFER_POOL_SIZE == 16

\* kzalloc(sizeof(*ctx)): a context object before context_create fills it;
\* state is "none" (never created), "live" or "freed"; lock is 0 or the
\* thread that holds the mutex
ZeroCtx == [state |-> "none", csr |-> ZeroCsr, regs |-> ZeroRegs, lock |-> 0,
            active |-> FALSE, preempted |-> FALSE,
            save_count |-> 0, restore_count |-> 0, last_use_time |-> 0]

\* kzalloc(sizeof(*mgr)); current_ctx is a context id, 0 for NULL; id names
\* the kzalloc object the manager is, used_slots the indexes i of the buffer
\* pool with used[i] set (kcalloc leaves none)
ZeroMgr == [id |-> 0, hw_available |-> FALSE, current_ctx |-> 0, context_count |-> 0,
            used_slots |-> {},
            pool_size |-> 0, lazy_save |-> FALSE, fast_switch |-> FALSE,
            save_threshold |-> 0,
            total_switches |-> 0, lazy_saves |-> 0, fast_switches |-> 0,
            save_errors |-> 0, restore_errors |-> 0, corruption_detected |-> 0,
            error_recovery_active |-> FALSE]

\* the register buffers of context c, as kzalloc objects
VregsOf(c) == 2 * c - 1
VmaskOf(c) == 2 * c

\* g_rvv_manager && g_rvv_manager->hw_config; init always sets hw_config
HasHwConfig == g_rvv_manager # "NULL"

\* fdca_rvv_context_save between mutex_lock and mutex_unlock, in its three
\* parts: the CSR save, the register save, and the statistics and flags
ContextSaveCsr(x, t) == [x EXCEPT !.csr = fdca_rvv_csr_save(x.csr, t)]

ContextSaveRegs(x, t) ==
    IF HasHwConfig
    THEN LET r == fdca_rvv_regs_save(x.regs, t)
         IN [ctx |-> [x EXCEPT !.regs = r.regs], ret |-> r.ret]
    ELSE [ctx |-> x, ret |-> "OK"]

ContextSaveStats(x, t) ==
    [x EXCEPT !.save_count = @ + 1, !.last_use_time = t, !.active = FALSE]

\* int fdca_rvv_context_save(ctx) on a non-NULL context, the clock reading t
fdca_rvv_context_save(x, t) ==
    LET a == ContextSaveCsr(x, t)
        b == ContextSaveRegs(a, t)
    IN IF b.ret # "OK" THEN [ctx |-> b.ctx, ret |-> b.ret]
       ELSE [ctx |-> ContextSaveStats(b.ctx, t), ret |-> "OK"]

\* fdca_rvv_context_restore between mutex_lock and mutex_unlock, in parts
ContextRestoreCsr(x) ==
    IF ~x.csr.valid
    THEN [ret |-> "EINVAL", writes |-> <<>>]
    ELSE [ret |-> "OK", writes |-> CsrRestoreWrites(x.csr)]

ContextRestoreRegs(x) ==
    IF HasHwConfig THEN fdca_rvv_regs_restore(x.regs) ELSE "OK"

ContextRestoreStats_KeepPreempted(x, t) ==
    [x EXCEPT !.restore_count = @ + 1, !.last_use_time = t, !.active = TRUE]

ContextRestoreStats(x, t) ==
    [x EXCEPT !.restore_count = @ + 1, !.last_use_time = t,
              !.active = TRUE, !.preempted = FALSE]

\* int fdca_rvv_context_restore(ctx) on a non-NULL context
fdca_rvv_context_restore(x, t) ==
    LET a == ContextRestoreCsr(x)
        b == ContextRestoreRegs(x)
    IN IF a.ret # "OK" THEN [ctx |-> x, ret |-> a.ret, writes |-> a.writes]
       ELSE IF b # "OK" THEN [ctx |-> x, ret |-> b, writes |-> a.writes]
       ELSE [ctx |-> ContextRestoreStats(x, t), ret |-> "OK", writes |-> a.writes]

\* the context object left allocated when fdca_rvv_regs_alloc fails
fdca_rvv_context_create_NoKfree(c, fail, t) ==
    IF ~rvv_available THEN [ret |-> "ENODEV", ctx |-> ZeroCtx, objs |-> {}]
    ELSE IF fail = "ctx" THEN [ret |-> "ENOMEM", ctx |-> ZeroCtx, objs |-> {}]
    ELSE IF fail \in {"vregs", "vmask"}
    THEN [ret |-> "ENOMEM", ctx |-> ZeroCtx, objs |-> {<<"ctx", c>>}]
    ELSE [ret |-> "OK",
          ctx |-> [ZeroCtx EXCEPT
                     !.state = "live", !.last_use_time = t,
                     !.regs = [ZeroRegs EXCEPT
                        !.vregs_data = VregsOf(c), !.vmask_data = VmaskOf(c),
                        !.vregs_size = RegsAllocSizes(rvv_config).vregs,
                        !.vmask_size = RegsAllocSizes(rvv_config).vmask,
                        !.num_vregs = FDCA_RVV_NUM_VREGS,
                        !.allocated = TRUE, !.saved = FALSE, !.ref_count = 1]],
          objs |-> {<<"ctx", c>>, <<"vregs", c>>, <<"vmask", c>>}]

\* struct fdca_rvv_context *fdca_rvv_context_create(fdev), at time t; fail
\* names the kzalloc that returns NULL: of the context, or of one of the two
\* buffers in fdca_rvv_regs_alloc. objs are the objects left allocated.
fdca_rvv_context_create(c, fail, t) ==
    LET size == RegsAllocSizes(rvv_config)
        regs == [ZeroRegs EXCEPT
                    !.vregs_data = VregsOf(c), !.vmask_data = VmaskOf(c),
                    !.vregs_size = size.vregs, !.vmask_size = size.vmask,
                    !.num_vregs = FDCA_RVV_NUM_VREGS,
                    !.allocated = TRUE, !.saved = FALSE, !.ref_count = 1]
        \* fdca_rvv_regs_alloc: what it leaves allocated
        bufs == CASE fail = "vregs" -> {}
                  [] fail = "vmask" -> {<<"vregs", c>>} \ {<<"vregs", c>>}
                  [] OTHER -> {<<"vregs", c>>, <<"vmask", c>>}
    IN IF ~rvv_available THEN [ret |-> "ENODEV", ctx |-> ZeroCtx, objs |-> {}]
       ELSE IF fail = "ctx" THEN [ret |-> "ENOMEM", ctx |-> ZeroCtx, objs |-> {}]
       ELSE IF fail \in {"vregs", "vmask"}
       THEN [ret |-> "ENOMEM", ctx |-> ZeroCtx,
             objs |-> ({<<"ctx", c>>} \cup bufs) \ {<<"ctx", c>>}]
       ELSE [ret |-> "OK",
             ctx |-> [ZeroCtx EXCEPT !.state = "live", !.regs = regs,
                                     !.last_use_time = t],
             objs |-> {<<"ctx", c>>} \cup bufs]

\* void fdca_rvv_context_destroy(ctx) on a non-NULL context c: regs_free,
\* then kfree(ctx); no lock is taken
fdca_rvv_context_destroy(c, x) ==
    LET f == fdca_rvv_regs_free(x.regs)
    IN [ctx |-> [x EXCEPT !.regs = f.regs, !.state = "freed"],
        objs |-> {<<"ctx", c>>} \cup
                 (IF f.freed THEN {<<"vregs", c>>, <<"vmask", c>>} ELSE {})]

\* the manager fdca_rvv_state_manager_init sets up, as the object id 1
InitialMgr ==
    [ZeroMgr EXCEPT !.id = 1,
                    !.hw_available = rvv_available,
                    !.pool_size = FDCA_RVV_BUFFER_POOL_SIZE,
                    !.lazy_save = TRUE, !.fast_switch = TRUE,
                    !.save_threshold = 10]

\* the kzalloc objects of the manager id: the structure and the two arrays
\* of its buffer pool
MgrObjs(id) == {<<"mgr", id>>, <<"buffers", id>>, <<"used", id>>}

\* the object a successful kzalloc(sizeof(*mgr)) returns: one that is not live
FreshMgr(h) ==
    CHOOSE id \in 1..(MaxCalls + 1) :
        /\ <<"mgr", id>> \notin h
        /\ \A j \in 1..(id - 1) : <<"mgr", j>> \in h

\* the pool arrays left allocated when one of them cannot be had
fdca_rvv_state_manager_init_NoRollback(fail, h, g, m) ==
    LET id == FreshMgr(h)
    IN IF fail = "mgr" THEN [ret |-> "ENOMEM", heap |-> h, g |-> g, mgr |-> m]
       ELSE IF fail \in {"buffers", "used"}
       THEN [ret |-> "ENOMEM",
             heap |-> h \cup (MgrObjs(id) \ {<<fail, id>>, <<"mgr", id>>}),
             g |-> g, mgr |-> m]
       ELSE [ret |-> "OK", heap |-> h \cup MgrObjs(id), g |-> "mgr",
             mgr |-> [InitialMgr EXCEPT !.id = id]]

\* int fdca_rvv_state_manager_init(fdev) for a non-NULL fdev; fail names the
\* allocation that returns NULL ("mgr", "buffers" or "used"); h, g and m
\* are the live objects, g_rvv_manager and the manager before the call
fdca_rvv_state_manager_init(fail, h, g, m) ==
    LET id == FreshMgr(h)
        pool == MgrObjs(id) \ {<<fail, id>>, <<"mgr", id>>}
    IN IF fail = "mgr" THEN [ret |-> "ENOMEM", heap |-> h, g |-> g, mgr |-> m]
       ELSE IF fail \in {"buffers", "used"}
       THEN [ret |-> "ENOMEM",
             heap |-> ((h \cup {<<"mgr", id>>} \cup pool) \ pool) \ {<<"mgr", id>>},
             g |-> g, mgr |-> m]
       ELSE [ret |-> "OK", heap |-> h \cup MgrObjs(id), g |-> "mgr",
             mgr |-> [InitialMgr EXCEPT !.id = id]]

\* void fdca_rvv_state_manager_fini(fdev): nothing when g_rvv_manager is
\* NULL; else the pool and the manager are kfree'd and g_rvv_manager
\* cleared. The contexts are not looked at.
fdca_rvv_state_manager_fini(h, g, m) ==
    IF g = "NULL" THEN [heap |-> h, g |-> g, mgr |-> m]
    ELSE [heap |-> h \ MgrObjs(m.id), g |-> "NULL", mgr |-> ZeroMgr]

Threads == {1, 2}

ThreadIdle == [pc |-> "idle", op |-> "none", c |-> 0, ret |-> "none"]

LiveCtxs == { c \in CtxIds : ctx[c].state = "live" }

IdleCtx ==
    /\ ctx = [c \in CtxIds |-> ZeroCtx]
    /\ mgr = ZeroMgr
    /\ kheap = {}
    /\ ctx_op = "none"
    /\ ctx_arg = 0
    /\ ctx_ret = "none"
    /\ ctx_writes = <<>>
    /\ ctx_trace = <<>>
    /\ ctx_calls = 0
    /\ thr = [t \in Threads |-> ThreadIdle]

InitCtx == IdleCtx

\* what every call of the sequential interface records
CtxCall(op, c, ret, writes, trace) ==
    /\ ctx_calls < MaxCalls
    /\ ctx_op' = op
    /\ ctx_arg' = c
    /\ ctx_ret' = ret
    /\ ctx_writes' = writes
    /\ ctx_trace' = trace
    /\ ctx_calls' = ctx_calls + 1
    /\ UNCHANGED thr
    /\ UNCHANGED otherThanCtx

\* fdca_rvv_state_manager_init(fdev); fail is "none", or the allocation that
\* fails
ManagerInit(fail) ==
    /\ LET r == fdca_rvv_state_manager_init(fail, kheap, g_rvv_manager, mgr)
       IN /\ g_rvv_manager' = r.g
          /\ mgr' = r.mgr
          /\ kheap' = r.heap
          /\ CtxCall("manager_init", 0, r.ret, <<>>, <<>>)
    /\ UNCHANGED ctx

\* fdca_rvv_state_manager_fini(fdev)
ManagerFini ==
    /\ LET r == fdca_rvv_state_manager_fini(kheap, g_rvv_manager, mgr)
       IN /\ g_rvv_manager' = r.g
          /\ mgr' = r.mgr
          /\ kheap' = r.heap
    /\ CtxCall("manager_fini", 0, "void", <<>>, <<>>)
    /\ UNCHANGED ctx

\* fdca_rvv_context_create(fdev): the new context is the next unused id
CtxCreate(fail, t) ==
    /\ \E c \in CtxIds :
          /\ ctx[c].state = "none"
          /\ \A d \in CtxIds : d < c => ctx[d].state # "none"
          /\ LET r == fdca_rvv_context_create(c, fail, t)
             IN /\ ctx' = [ctx EXCEPT ![c] = r.ctx]
                /\ kheap' = kheap \cup r.objs
                /\ CtxCall("create", IF r.ret = "OK" THEN c ELSE 0, r.ret,
                           <<>>, <<>>)
    /\ UNCHANGED <<g_rvv_manager, mgr>>

\* fdca_rvv_context_destroy(ctx); c = 0 is the NULL pointer
CtxDestroy(c) ==
    /\ c \in LiveCtxs \cup {0}
    /\ IF c = 0
       THEN UNCHANGED <<ctx, kheap>>
       ELSE LET r == fdca_rvv_context_destroy(c, ctx[c])
            IN /\ ctx' = [ctx EXCEPT ![c] = r.ctx]
               /\ kheap' = kheap \ r.objs
    /\ CtxCall("destroy", c, "void", <<>>, <<>>)
    /\ UNCHANGED <<g_rvv_manager, mgr>>

\* fdca_rvv_context_save(ctx) run from mutex_lock to mutex_unlock
CtxSave(c, t) ==
    /\ c \in LiveCtxs \cup {0}
    /\ IF c = 0
       THEN /\ UNCHANGED ctx
            /\ CtxCall("save", c, "EINVAL", <<>>, <<>>)
       ELSE LET r == fdca_rvv_context_save(ctx[c], t)
            IN /\ ctx[c].lock = 0   \* mutex_lock: nobody holds it
               /\ ctx' = [ctx EXCEPT ![c] = r.ctx]
               /\ CtxCall("save", c, r.ret, <<>>, <<>>)
    /\ UNCHANGED <<g_rvv_manager, mgr, kheap>>

\* fdca_rvv_context_restore(ctx) run from mutex_lock to mutex_unlock
CtxRestore(c, t) ==
    /\ c \in LiveCtxs \cup {0}
    /\ IF c = 0
       THEN /\ UNCHANGED ctx
            /\ CtxCall("restore", c, "EINVAL", <<>>, <<>>)
       ELSE LET r == fdca_rvv_context_restore(ctx[c], t)
            IN /\ ctx[c].lock = 0   \* mutex_lock: nobody holds it
               /\ ctx' = [ctx EXCEPT ![c] = r.ctx]
               /\ CtxCall("restore", c, r.ret, r.writes, <<>>)
    /\ UNCHANGED <<g_rvv_manager, mgr, kheap>>

(***************************************************************************)
(* Context switching and error handling.  src/fdca_rvv_state.h declares    *)
(* fdca_rvv_switch_context, fdca_rvv_preempt_context,                      *)
(* fdca_rvv_handle_save_error, fdca_rvv_handle_restore_error and           *)
(* fdca_rvv_reset_error_state; no source file defines them.  They are      *)
(* modelled from the specification (sections 4.4 and 4.5), on top of the   *)
(* save and restore the source does define.                                *)
(***************************************************************************)
\* "three or more corruption detections flips error_recovery_active"
CorruptionLimit == 3

\* record_save_error
fdca_rvv_handle_save_error(m, error) ==
    [m EXCEPT !.save_errors = @ + 1]

\* the latch set one detection late
fdca_rvv_handle_restore_error_Late(m, error) ==
    LET n == m.corruption_detected + (IF error = "EINVAL" THEN 1 ELSE 0)
    IN [m EXCEPT !.restore_errors = @ + 1,
                 !.corruption_detected = n,
                 !.error_recovery_active = @ \/ n > CorruptionLimit]

\* record_restore_error; a restore refused with the invalid-state error is a
\* restore of an unsaved or invalid context, counted in corruption_detected
fdca_rvv_handle_restore_error(m, error) ==
    LET n == m.corruption_detected + (IF error = "EINVAL" THEN 1 ELSE 0)
    IN [m EXCEPT !.restore_errors = @ + 1,
                 !.corruption_detected = n,
                 !.error_recovery_active = @ \/ n >= CorruptionLimit]

\* the explicit reset
fdca_rvv_reset_error_state(m) ==
    [m EXCEPT !.save_errors = 0, !.restore_errors = 0,
              !.corruption_detected = 0, !.error_recovery_active = FALSE]

\* the restore of new_ctx placed before the save of the current context
fdca_rvv_switch_context_RestoreFirst(new, lazy, t) ==
    LET cur == mgr.current_ctx
        r == fdca_rvv_context_restore(ctx[new], t)
        restored == [ctx EXCEPT ![new] = r.ctx]
        s == IF cur # 0 THEN fdca_rvv_context_save(restored[cur], t)
             ELSE [ctx |-> ZeroCtx, ret |-> "OK"]
        strace == IF cur # 0 THEN << <<"save", cur>> >> ELSE <<>>
    IN IF g_rvv_manager = "NULL"
       THEN [ret |-> "ENODEV", ctx |-> ctx, mgr |-> mgr, writes |-> <<>>,
             trace |-> <<>>]
       ELSE IF new = 0 \/ mgr.error_recovery_active
       THEN [ret |-> "EINVAL", ctx |-> ctx, mgr |-> mgr, writes |-> <<>>,
             trace |-> <<>>]
       ELSE IF mgr.lazy_save /\ cur # 0 /\ lazy
       THEN [ret |-> "OK", ctx |-> ctx,
             mgr |-> [mgr EXCEPT !.current_ctx = new, !.fast_switches = @ + 1,
                                 !.total_switches = @ + 1],
             writes |-> <<>>, trace |-> <<>>]
       ELSE IF r.ret # "OK"
       THEN [ret |-> r.ret, ctx |-> ctx,
             mgr |-> fdca_rvv_handle_restore_error(mgr, r.ret),
             writes |-> r.writes, trace |-> << <<"restore", new>> >>]
       ELSE [ret |-> "OK",
             ctx |-> IF cur # 0 THEN [restored EXCEPT ![cur] = s.ctx] ELSE restored,
             mgr |-> [mgr EXCEPT !.current_ctx = new, !.total_switches = @ + 1],
             writes |-> r.writes,
             trace |-> << <<"restore", new>> >> \o strace]

\* switch_to(new_ctx): lazy says the current context is within
\* save_threshold of its last use
fdca_rvv_switch_context(new, lazy, t) ==
    LET cur == mgr.current_ctx
        s == IF cur # 0 THEN fdca_rvv_context_save(ctx[cur], t)
             ELSE [ctx |-> ZeroCtx, ret |-> "OK"]
        saved == IF cur # 0 THEN [ctx EXCEPT ![cur] = s.ctx] ELSE ctx
        strace == IF cur # 0 THEN << <<"save", cur>> >> ELSE <<>>
        r == fdca_rvv_context_restore(saved[new], t)
    IN IF g_rvv_manager = "NULL"
       THEN [ret |-> "ENODEV", ctx |-> ctx, mgr |-> mgr, writes |-> <<>>,
             trace |-> <<>>]
       ELSE IF new = 0 \/ mgr.error_recovery_active
       THEN [ret |-> "EINVAL", ctx |-> ctx, mgr |-> mgr, writes |-> <<>>,
             trace |-> <<>>]
       ELSE IF mgr.lazy_save /\ cur # 0 /\ lazy
       THEN [ret |-> "OK", ctx |-> ctx,
             mgr |-> [mgr EXCEPT !.current_ctx = new, !.fast_switches = @ + 1,
                                 !.total_switches = @ + 1],
             writes |-> <<>>, trace |-> <<>>]
       ELSE IF s.ret # "OK"
       THEN [ret |-> s.ret, ctx |-> saved,
             mgr |-> fdca_rvv_handle_save_error(mgr, s.ret),
             writes |-> <<>>, trace |-> strace]
       ELSE IF r.ret # "OK"
       THEN [ret |-> r.ret, ctx |-> saved,
             mgr |-> fdca_rvv_handle_restore_error(mgr, r.ret),
             writes |-> r.writes,
             trace |-> Append(strace, <<"restore", new>>)]
       ELSE [ret |-> "OK", ctx |-> [saved EXCEPT ![new] = r.ctx],
             mgr |-> [mgr EXCEPT !.current_ctx = new, !.total_switches = @ + 1],
             writes |-> r.writes,
             trace |-> Append(strace, <<"restore", new>>)]

\* preempt(): the Active current context becomes Preempted
fdca_rvv_preempt_context(x) ==
    IF x.active THEN [x EXCEPT !.active = FALSE, !.preempted = TRUE] ELSE x

\* the manager's current context is one its owner has not destroyed
CurrentUsable == mgr.current_ctx = 0 \/ mgr.current_ctx \in LiveCtxs

\* fdca_rvv_switch_context(fdev, new_ctx)
SwitchContext(new, lazy, t) ==
    /\ new \in LiveCtxs \cup {0}
    /\ CurrentUsable
    /\ \A c \in LiveCtxs : ctx[c].lock = 0
    /\ LET r == fdca_rvv_switch_context(new, lazy, t)
       IN /\ ctx' = r.ctx
          /\ mgr' = r.mgr
          /\ CtxCall("switch", new, r.ret, r.writes, r.trace)
    /\ UNCHANGED <<g_rvv_manager, kheap>>

\* fdca_rvv_preempt_context(fdev)
PreemptContext ==
    /\ CurrentUsable
    /\ IF g_rvv_manager = "NULL" \/ mgr.current_ctx = 0
       THEN UNCHANGED ctx
       ELSE ctx' = [ctx EXCEPT ![mgr.current_ctx] = fdca_rvv_preempt_context(@)]
    /\ CtxCall("preempt", mgr.current_ctx, "void", <<>>, <<>>)
    /\ UNCHANGED <<g_rvv_manager, mgr, kheap>>

\* fdca_rvv_reset_error_state(fdev)
ResetErrorState ==
    /\ IF g_rvv_manager = "NULL"
       THEN UNCHANGED mgr
       ELSE mgr' = fdca_rvv_reset_error_state(mgr)
    /\ CtxCall("reset_error_state", 0, "void", <<>>, <<>>)
    /\ UNCHANGED <<g_rvv_manager, ctx, kheap>>

(***************************************************************************)
(* Concurrent callers: a save or restore call step by step, from           *)
(* mutex_lock(&ctx->lock) to mutex_unlock(&ctx->lock)                      *)
(***************************************************************************)
\* mutex_lock(&ctx->lock) returns once nobody holds the mutex
MutexAvailable_Always(x) == TRUE

MutexAvailable(x) == x.lock = 0

\* the thread is between mutex_lock and mutex_unlock
InCritical(t) == thr[t].pc \in {"csr", "regs", "stats", "unlock"}

\* a failed call returning without mutex_unlock
OutUnlock_Return == "idle"

\* goto out_unlock: where a failed fdca_rvv_csr_* or fdca_rvv_regs_* call
\* sends the thread
OutUnlock == "unlock"

\* what a step of thread t leaves alone
ThreadFrame ==
    /\ UNCHANGED <<g_rvv_manager, mgr, kheap, ctx_op, ctx_arg, ctx_ret, ctx_trace>>
    /\ UNCHANGED otherThanCtx

\* thread t calls fdca_rvv_context_save or _restore on the context c
ThreadCall(t, op, c) ==
    /\ thr[t].pc = "idle"
    /\ c \in LiveCtxs
    /\ ctx_calls < MaxCalls
    /\ ctx_calls' = ctx_calls + 1
    /\ thr' = [thr EXCEPT ![t] = [pc |-> "lock", op |-> op, c |-> c, ret |-> "none"]]
    /\ UNCHANGED <<ctx, ctx_writes>>
    /\ ThreadFrame

\* mutex_lock(&ctx->lock)
ThreadLock(t) ==
    /\ thr[t].pc = "lock"
    /\ MutexAvailable(ctx[thr[t].c])
    /\ ctx' = [ctx EXCEPT ![thr[t].c].lock = t]
    /\ thr' = [thr EXCEPT ![t].pc = "csr"]
    /\ UNCHANGED <<ctx_calls, ctx_writes>>
    /\ ThreadFrame

\* fdca_rvv_csr_save(&ctx->csr) or fdca_rvv_csr_restore(&ctx->csr)
ThreadCsr(t, clk) ==
    /\ thr[t].pc = "csr"
    /\ LET c == thr[t].c
           r == ContextRestoreCsr(ctx[c])
       IN IF thr[t].op = "save"
          THEN /\ ctx' = [ctx EXCEPT ![c] = ContextSaveCsr(@, clk)]
               /\ thr' = [thr EXCEPT ![t].pc = "regs"]
               /\ ctx_writes' = <<>>
          ELSE /\ UNCHANGED ctx
               /\ ctx_writes' = r.writes
               /\ thr' = [thr EXCEPT ![t].pc = IF r.ret = "OK" THEN "regs" ELSE OutUnlock,
                                     ![t].ret = r.ret]
    /\ UNCHANGED ctx_calls
    /\ ThreadFrame

\* fdca_rvv_regs_save or fdca_rvv_regs_restore, when the manager has a
\* hardware configuration
ThreadRegs(t, clk) ==
    /\ thr[t].pc = "regs"
    /\ LET c == thr[t].c
           s == ContextSaveRegs(ctx[c], clk)
           r == ContextRestoreRegs(ctx[c])
       IN IF thr[t].op = "save"
          THEN /\ ctx' = [ctx EXCEPT ![c] = s.ctx]
               /\ thr' = [thr EXCEPT ![t].pc = IF s.ret = "OK" THEN "stats" ELSE OutUnlock,
                                     ![t].ret = s.ret]
          ELSE /\ UNCHANGED ctx
               /\ thr' = [thr EXCEPT ![t].pc = IF r = "OK" THEN "stats" ELSE OutUnlock,
                                     ![t].ret = r]
    /\ UNCHANGED <<ctx_calls, ctx_writes>>
    /\ ThreadFrame

\* the statistics, last_use_time and the active / preempted flags
ThreadStats(t, clk) ==
    /\ thr[t].pc = "stats"
    /\ LET c == thr[t].c
       IN ctx' = [ctx EXCEPT ![c] = IF thr[t].op = "save"
                                    THEN ContextSaveStats(@, clk)
                                    ELSE ContextRestoreStats(@, clk)]
    /\ thr' = [thr EXCEPT ![t].pc = "unlock", ![t].ret = "OK"]
    /\ UNCHANGED <<ctx_calls, ctx_writes>>
    /\ ThreadFrame

\* out_unlock: mutex_unlock(&ctx->lock); return ret
ThreadUnlock(t) ==
    /\ thr[t].pc = "unlock"
    /\ ctx' = [ctx EXCEPT ![thr[t].c].lock = 0]
    /\ thr' = [thr EXCEPT ![t].pc = "idle"]
    /\ UNCHANGED <<ctx_calls, ctx_writes>>
    /\ ThreadFrame

\* a thread inside a call on a context that has been kfree'd works on freed
\* memory: it may go on as above, or fault
ThreadFault(t) ==
    /\ thr[t].pc \notin {"idle", "oops"}
    /\ ctx[thr[t].c].state = "freed"
    /\ thr' = [thr EXCEPT ![t].pc = "oops"]
    /\ UNCHANGED <<ctx, ctx_calls, ctx_writes>>
    /\ ThreadFrame

\* one context, created by its owner, before any thread calls into it
InitCtxConc ==
    /\ ctx = [c \in CtxIds |->
                IF c = 1 THEN fdca_rvv_context_create(1, "none", 1).ctx ELSE ZeroCtx]
    /\ mgr = IF g_rvv_manager = "NULL" THEN ZeroMgr ELSE InitialMgr
    /\ kheap = fdca_rvv_context_create(1, "none", 1).objs
               \cup (IF g_rvv_manager = "NULL" THEN {} ELSE MgrObjs(1))
    /\ ctx_op = "create"
    /\ ctx_arg = 1
    /\ ctx_ret = "OK"
    /\ ctx_writes = <<>>
    /\ ctx_trace = <<>>
    /\ ctx_calls = 1
    /\ thr = [t \in Threads |-> ThreadIdle]

(***************************************************************************)
(* Specifications                                                          *)
(***************************************************************************)
NextConfig ==
    \/ ConfigValidate
    \/ \E reg \in ConfigRegInputs : DetectRvvCapabilities(reg)

InitConfigSpec ==
    InitConfig /\ IdleCsr /\ IdleRegs /\ IdleInstr /\ IdleHz /\ IdleVrf /\ IdleVmem /\ IdleCtx /\ IdleVrfConc /\ IdleSync

SpecConfig == InitConfigSpec /\ [][NextConfig]_vars

NextCsr ==
    \/ CsrParseVtype
    \/ \E arg \in {"NULL", "ctx"}, t \in Times : CsrSave(arg, t)
    \/ \E arg \in {"NULL", "ctx"} : CsrRestore(arg)

InitCsrSpec ==
    /\ rvv_available = TRUE
    /\ rvv_config \in HwConfigs
    /\ cfg_op = "none"
    /\ cfg_ret = "none"
    /\ InitCsr
    /\ g_rvv_manager = "NULL" => rvv_config.vlen = 1024
    /\ IdleRegs /\ IdleInstr /\ IdleHz /\ IdleVrf /\ IdleVmem /\ IdleCtx /\ IdleVrfConc /\ IdleSync

SpecCsr == InitCsrSpec /\ [][NextCsr]_vars

InitCsrValidateSpec ==
    /\ rvv_available = TRUE
    /\ rvv_config \in HwConfigs
    /\ cfg_op = "none"
    /\ cfg_ret = "none"
    /\ InitCsrValidate
    /\ IdleRegs /\ IdleInstr /\ IdleHz /\ IdleVrf /\ IdleVmem /\ IdleCtx /\ IdleVrfConc /\ IdleSync

NextCsrValidate ==
    \/ CsrParseVtype
    \/ \E arg \in {"NULL", "ctx"}, div0 \in DivByZeroOutcomes : CsrValidate(arg, div0)

SpecCsrValidate == InitCsrValidateSpec /\ [][NextCsrValidate]_vars

InitRegsSpec ==
    /\ rvv_available = TRUE
    /\ rvv_config \in RegsConfigs
    /\ cfg_op = "none"
    /\ cfg_ret = "none"
    /\ IdleCsr /\ InitRegs /\ IdleInstr /\ IdleHz /\ IdleVrf /\ IdleVmem /\ IdleCtx /\ IdleVrfConc /\ IdleSync

NextRegs ==
    \/ \E fail \in {"none", "vregs", "vmask"} : RegsAlloc(fail)
    \/ RegsRetain
    \/ RegsFree
    \/ \E t \in Times : RegsSave(t)
    \/ RegsRestore

SpecRegs == InitRegsSpec /\ [][NextRegs]_vars

InitInstrSpec ==
    IdleConfig /\ IdleCsr /\ IdleRegs /\ InitInstr /\ IdleHz /\ IdleVrf /\ IdleVmem /\ IdleCtx /\ IdleVrfConc /\ IdleSync

NextInstr ==
    \/ DecodeInstrType
    \/ \E arg \in {"NULL", "instr"} : ParseInstr(arg)

SpecInstr == InitInstrSpec /\ [][NextInstr]_vars

InitValidateSpec ==
    IdleConfig /\ IdleCsr /\ IdleRegs /\ InitValidate /\ IdleHz /\ IdleVrf /\ IdleVmem /\ IdleCtx /\ IdleVrfConc /\ IdleSync

NextValidate ==
    \/ \E d \in ValidateDescs : BuildInstr(d)
    \/ \E arg \in {"NULL", "instr"} : ValidateInstr(arg)

SpecValidate == InitValidateSpec /\ [][NextValidate]_vars

InitHzSpec ==
    IdleConfig /\ IdleCsr /\ IdleRegs /\ IdleInstr /\ InitHz /\ IdleVrf /\ IdleVmem /\ IdleCtx /\ IdleVrfConc /\ IdleSync

NextHz == Conflicts

SpecHazard == InitHzSpec /\ [][NextHz]_vars

InitDecodeHzSpec ==
    IdleConfig /\ IdleCsr /\ IdleRegs /\ InitDecodeHz /\ IdleVrf /\ IdleVmem /\ IdleCtx /\ IdleVrfConc /\ IdleSync

NextDecodeHz ==
    \/ \E arg \in {"NULL", "instr"} : ParseInstr(arg)
    \/ \E op \in OtherOpcodes : ConflictsDecoded(op)

SpecDecodeHazard == InitDecodeHzSpec /\ [][NextDecodeHz]_vars

InitVrfSpec ==
    IdleConfig /\ IdleCsr /\ IdleRegs /\ IdleInstr /\ IdleHz /\ InitVrf /\ IdleVmem /\ IdleCtx /\ IdleVrfConc /\ IdleSync

NextVrf ==
    \/ \E ok \in BOOLEAN : VrfInit(ok)
    \/ VrfFini
    \/ VrfAllocReg
    \/ \E reg \in FreeRegInputs : VrfFreeReg(reg)

SpecVrf == InitVrfSpec /\ [][NextVrf]_vars

InitLaneSpec ==
    IdleConfig /\ IdleCsr /\ IdleRegs /\ IdleInstr /\ IdleHz /\ InitLane /\ IdleVmem /\ IdleCtx /\ IdleVrfConc /\ IdleSync

NextLane ==
    \/ \E ok \in BOOLEAN : VrfInit(ok)
    \/ VrfFini
    \/ \E dir \in {"read_lane", "write_lane"}, reg \in LaneRegInputs,
          lane \in LaneInputs4, fault \in BOOLEAN :
            VrfLaneAccess(dir, reg, lane, fault)

SpecLane == InitLaneSpec /\ [][NextLane]_vars

InitVmemSpec ==
    IdleConfig /\ IdleCsr /\ IdleRegs /\ IdleInstr /\ IdleHz /\ IdleVrf /\ InitVmem /\ IdleCtx /\ IdleVrfConc /\ IdleSync

NextVmem ==
    \/ \E op \in VmemOps \cup {vmem_op}, fault \in VmemFaults :
          VmemExecute(op, fault)
    \/ \E status \in StatusInputs, late \in BOOLEAN : VmemPoll(status, late)

SpecVmem == InitVmemSpec /\ [][NextVmem]_vars

NextVmemWide ==
    \/ \E op \in WideVmemOps, fault \in {"none", "staging"} : VmemExecute(op, fault)
    \/ \E status \in StatusInputs, late \in BOOLEAN : VmemPoll(status, late)

SpecVmemWide == InitVmemSpec /\ [][NextVmemWide]_vars

\* The polling loop runs on: the thread is not descheduled for ever in
\* cpu_relax(), and jiffies pass the deadline.
SpecVmemFair ==
    SpecVmemWide /\ WF_vars(\E status \in StatusInputs, late \in BOOLEAN : VmemPoll(status, late))

InitVrfConcSpec ==
    IdleConfig /\ IdleCsr /\ IdleRegs /\ IdleInstr /\ IdleHz /\ InitVrfMgr /\ IdleVmem /\ IdleCtx /\ InitVrfConc /\ IdleSync

NextVrfConc ==
    \/ \E t \in VrfThreads : VrfcAllocCall(t)
    \/ \E t \in VrfThreads, reg \in FreeRegInputs : VrfcFreeCall(t, reg)
    \/ \E t \in VrfThreads : VrfcLock(t)
    \/ \E t \in VrfThreads : VrfcFind(t)
    \/ \E t \in VrfThreads : VrfcSet(t)
    \/ \E t \in VrfThreads : VrfcClear(t)
    \/ \E t \in VrfThreads : VrfcUnlock(t)

SpecVrfConc == InitVrfConcSpec /\ [][NextVrfConc]_vars

InitSyncSpec ==
    IdleConfig /\ IdleCsr /\ IdleRegs /\ IdleInstr /\ IdleHz /\ IdleVrf /\ IdleVmem /\ IdleCtx /\ IdleVrfConc /\ InitSync

NextSync ==
    \/ \E ok \in BOOLEAN : SyncCreateFence(ok)
    \/ \E id \in FenceIdInputs : SyncSignalFence(id)
    \/ \E t \in SyncThreads, id \in FenceIdInputs, timeout \in TimeoutInputs :
          SyncWaitCall(t, id, timeout)
    \/ \E t \in SyncThreads : SyncWaitDone(t)
    \/ \E t \in SyncThreads : SyncWaitTimeout(t)

SpecSync == InitSyncSpec /\ [][NextSync]_vars

InitCtxSpec ==
    /\ rvv_available \in BOOLEAN
    /\ rvv_config = [vlen |-> 1024, elen |-> 64, num_lanes |-> 4, vlenb |-> 128]
    /\ cfg_op = "none"
    /\ cfg_ret = "none"
    /\ IdleCsr /\ IdleRegs /\ IdleInstr /\ IdleHz /\ IdleVrf /\ IdleVmem /\ InitCtx /\ IdleVrfConc /\ IdleSync

NextCtx ==
    \/ \E fail \in {"none", "mgr", "buffers", "used"} : ManagerInit(fail)
    \/ ManagerFini
    \/ \E fail \in {"none", "ctx", "vregs", "vmask"}, t \in Times : CtxCreate(fail, t)
    \/ \E c \in CtxIds \cup {0} : CtxDestroy(c)
    \/ \E c \in CtxIds \cup {0}, t \in Times : CtxSave(c, t)
    \/ \E c \in CtxIds \cup {0}, t \in Times : CtxRestore(c, t)
    \/ \E new \in CtxIds \cup {0}, lazy \in BOOLEAN, t \in Times :
          SwitchContext(new, lazy, t)
    \/ PreemptContext
    \/ ResetErrorState

SpecCtx == InitCtxSpec /\ [][NextCtx]_vars

InitCtxConcSpec ==
    /\ IdleConfig
    /\ g_rvv_manager \in {"NULL", "mgr"}
    /\ csr_ctx = ZeroCsr
    /\ csr_reads = <<>>
    /\ csr_writes = <<>>
    /\ csr_arg = "none"
    /\ csr_op = "none"
    /\ csr_prev = "none"
    /\ csr_ret = "none"
    /\ IdleRegs /\ IdleInstr /\ IdleHz /\ IdleVrf /\ IdleVmem /\ InitCtxConc /\ IdleVrfConc /\ IdleSync

NextCtxConc ==
    \/ \E t \in Threads, op \in {"save", "restore"}, c \in CtxIds : ThreadCall(t, op, c)
    \/ \E t \in Threads : ThreadLock(t)
    \/ \E t \in Threads, clk \in Times : ThreadCsr(t, clk)
    \/ \E t \in Threads, clk \in Times : ThreadRegs(t, clk)
    \/ \E t \in Threads, clk \in Times : ThreadStats(t, clk)
    \/ \E t \in Threads : ThreadUnlock(t)
    \/ \E t \in Threads : ThreadFault(t)
    \/ \E fail \in {"none", "mgr"} : ManagerInit(fail)
    \/ \E c \in CtxIds : CtxDestroy(c)

SpecCtxConc == InitCtxConcSpec /\ [][NextCtxConc]_vars

(***************************************************************************)
(* C1                                                                      *)
(***************************************************************************)
InBounds(c) ==
    /\ 128 <= c.vlen /\ c.vlen <= 65536
    /\ c.elen <= 64
    /\ 1 <= c.num_lanes /\ c.num_lanes <= 16

\* C1: capability validation succeeds iff 128 <= vlen <= 65536, elen <= 64
\* and 1 <= num_lanes <= 16, fails with the invalid-configuration error
\* otherwise (also at the end of capability detection), and validation
\* leaves the capability as it was.
C1_ValidateIffInBounds ==
    [][/\ cfg_op' = "validate" =>
            /\ cfg_ret' = (IF InBounds(rvv_config) THEN "OK" ELSE "EINVAL")
            /\ rvv_config' = rvv_config
       /\ (cfg_op' = "detect" /\ rvv_available) =>
            cfg_ret' = (IF InBounds(rvv_config') THEN "OK" ELSE "EINVAL")]_vars

C1_Witness ==
    /\ cfg_op = "validate"
    /\ cfg_ret = "EINVAL"
    /\ rvv_config.vlen = 1024 /\ rvv_config.elen = 64 /\ rvv_config.num_lanes = 17

(***************************************************************************)
(* C2 - C5: the CSR context                                                *)
(***************************************************************************)
\* C2: a CSR restore that directly follows a successful CSR save succeeds,
\* writes to the hardware exactly the values the save read for vstart,
\* vxsat, vxrm, vcsr, vl and vtype, each at its own address and in that
\* order, and leaves the stored context as it was.
C2_CsrRoundTrip ==
    [][(/\ csr_op = "csr_save" /\ csr_arg = "ctx" /\ csr_ret = "OK"
        /\ csr_op' = "csr_restore" /\ csr_arg' = "ctx") =>
            /\ csr_ret' = "OK"
            /\ csr_writes' = SubSeq(csr_reads, 1, 6)
            /\ csr_ctx' = csr_ctx]_vars

C2_Witness ==
    /\ csr_prev = "csr_save" /\ csr_op = "csr_restore" /\ csr_arg = "ctx"
    /\ csr_ret = "OK"
    /\ Len(csr_writes) = 6
    /\ csr_writes[6] = <<FDCA_CSR_VTYPE, {63}>>

\* C3: parsing the same VTYPE value a second time leaves every derived
\* field (vlmul, vsew, vta, vma, vill, sew_bits, lmul_mul, lmul_div) as the
\* first parse left it, whatever the view held before and whether or not
\* the illegal bit is set.
C3_ParseIdempotent ==
    [][(csr_op = "parse_vtype" /\ csr_op' = "parse_vtype") =>
            /\ csr_ctx'.vtype = csr_ctx.vtype
            /\ csr_ctx'.parsed = csr_ctx.parsed]_vars

C3_Witness ==
    /\ csr_prev = "parse_vtype" /\ csr_op = "parse_vtype"
    /\ csr_ctx.vtype = {0, 1, 4, 6}
    /\ csr_ctx.parsed.vsew = 2 /\ csr_ctx.parsed.sew_bits = 32

BitAt(word, b) == IF b \in word THEN 1 ELSE 0

\* C4: after parse_vtype of a VTYPE whose bit 63 is clear, vill is false,
\* vlmul = bits[2:0], vsew = bits[5:3], vta = bit 6, vma = bit 7 and
\* sew_bits = 8 << vsew; vtype = 0 gives vlmul = 0, vsew = 0, SEW = 8 and
\* all three flags false.
C4_ParseLegalVtype ==
    (csr_op = "parse_vtype" /\ 63 \notin csr_ctx.vtype) =>
        LET v == csr_ctx.vtype
            p == csr_ctx.parsed
        IN  /\ p.vill = FALSE
            /\ p.vlmul = BitAt(v, 0) + 2 * BitAt(v, 1) + 4 * BitAt(v, 2)
            /\ p.vsew = BitAt(v, 3) + 2 * BitAt(v, 4) + 4 * BitAt(v, 5)
            /\ p.vta = (6 \in v)
            /\ p.vma = (7 \in v)
            /\ p.sew_bits = <<8, 16, 32, 64, 128, 256, 512, 1024>>[p.vsew + 1]
            /\ v = {} => /\ p.vlmul = 0 /\ p.vsew = 0 /\ p.sew_bits = 8
                         /\ ~p.vta /\ ~p.vma /\ ~p.vill

C4_Witness ==
    /\ csr_op = "parse_vtype"
    /\ csr_ctx.vtype = {}
    /\ csr_ctx.parsed = [ZeroView EXCEPT !.sew_bits = 8, !.lmul_mul = 1, !.lmul_div = 1]

\* C5: the LMUL ratio derived for vlmul 0..7 is 1, 2, 4, 8 for 0..3, 1 for
\* the reserved value 4, and 1/8, 1/4, 1/2 for 5, 6, 7; the divisor is
\* never 0.
C5_LmulRatio ==
    (csr_op = "parse_vtype" /\ 63 \notin csr_ctx.vtype) =>
        LET p == csr_ctx.parsed
        IN  /\ p.vlmul \in 0..7
            /\ <<p.lmul_mul, p.lmul_div>> =
                 << <<1, 1>>, <<2, 1>>, <<4, 1>>, <<8, 1>>,
                    <<1, 1>>, <<1, 8>>, <<1, 4>>, <<1, 2>> >>[p.vlmul + 1]
            /\ p.lmul_div # 0

C5_Witness ==
    /\ csr_op = "parse_vtype"
    /\ 63 \notin csr_ctx.vtype
    /\ csr_ctx.parsed.vlmul = 5
    /\ csr_ctx.parsed.lmul_mul = 1 /\ csr_ctx.parsed.lmul_div = 8

(***************************************************************************)
(* C6: register-file allocation                                            *)
(***************************************************************************)
\* C6: a successful register-file allocation for a capability of vlen bits
\* leaves a live vector-register buffer of (vlen/8)*32 bytes and a live
\* mask buffer of vlen/8 bytes (4096 and 128 for vlen = 1024), with
\* allocated = true, saved = false and ref_count = 1; a failed one returns
\* out-of-memory with no buffer live, both pointers null and allocated
\* not set.
C6_RegsAlloc ==
    regs_op = "regs_alloc" =>
        IF regs_ret = "OK"
        THEN /\ reg_state.vregs_data \in BufIds
             /\ reg_state.vmask_data \in BufIds
             /\ reg_state.vregs_data # reg_state.vmask_data
             /\ heap[reg_state.vregs_data] = (rvv_config.vlen \div 8) * 32
             /\ heap[reg_state.vmask_data] = rvv_config.vlen \div 8
             /\ reg_state.vregs_size = heap[reg_state.vregs_data]
             /\ reg_state.vmask_size = heap[reg_state.vmask_data]
             /\ reg_state.allocated /\ ~reg_state.saved /\ reg_state.ref_count = 1
             /\ rvv_config.vlen = 1024 =>
                    /\ heap[reg_state.vregs_data] = 4096
                    /\ heap[reg_state.vmask_data] = 128
        ELSE /\ regs_ret = "ENOMEM"
             /\ \A b \in BufIds : heap[b] = -1
             /\ reg_state.vregs_data = 0 /\ reg_state.vmask_data = 0
             /\ ~reg_state.allocated

C6_Witness ==
    /\ regs_op = "regs_alloc" /\ regs_ret = "OK"
    /\ rvv_config.vlen = 1024
    /\ heap[reg_state.vregs_data] = 4096
    /\ heap[reg_state.vmask_data] = 128
    /\ reg_state.ref_count = 1

(***************************************************************************)
(* C7: instruction classification                                          *)
(***************************************************************************)
BaseOf(op) == BitAt(op, 0) + 2 * BitAt(op, 1) + 4 * BitAt(op, 2) + 8 * BitAt(op, 3)
              + 16 * BitAt(op, 4) + 32 * BitAt(op, 5) + 64 * BitAt(op, 6)
Funct3Of(op) == BitAt(op, 12) + 2 * BitAt(op, 13) + 4 * BitAt(op, 14)

\* the classification as first stated: only 0x07, 0x27 and 0x57 recognised
ClassOriginal(op) ==
    IF BaseOf(op) \in {7, 39} THEN "VMEM"
    ELSE IF BaseOf(op) = 87 THEN (IF Funct3Of(op) = 7 THEN "VSETVLI" ELSE "VARITH")
    ELSE "INVALID"

\* and with the multiply-add base opcode 0x43 classified as arithmetic
ClassAmended(op) ==
    IF BaseOf(op) \in {7, 39} THEN "VMEM"
    ELSE IF BaseOf(op) = 87 THEN (IF Funct3Of(op) = 7 THEN "VSETVLI" ELSE "VARITH")
    ELSE IF BaseOf(op) = 67 THEN "VARITH"
    ELSE "INVALID"

\* C7 as stated: the type is VMEM exactly for base 0x07 / 0x27, VSETVLI or
\* VARITH for base 0x57 by funct3, and every other base opcode is INVALID
\* and fails to parse.
C7_Original ==
    /\ instr_op = "decode_instr_type" => instr_ret = ClassOriginal(opcode)
    /\ (instr_op = "parse_instr" /\ instr_arg = "instr") =>
            /\ instr.type = ClassOriginal(opcode)
            /\ ClassOriginal(opcode) = "INVALID" => instr_ret = "EINVAL"

\* C7 (amended): the type is VMEM exactly for base 0x07 / 0x27; for base
\* 0x57 it is VSETVLI when funct3 = 7 and VARITH otherwise; for the
\* multiply-add base 0x43 it is VARITH whatever funct3 is; every other base
\* opcode is INVALID, and parsing fails with the decode error exactly then.
C7_Classification ==
    /\ instr_op = "decode_instr_type" => instr_ret = ClassAmended(opcode)
    /\ (instr_op = "parse_instr" /\ instr_arg = "instr") =>
            /\ instr.type = ClassAmended(opcode)
            /\ instr_ret = (IF ClassAmended(opcode) = "INVALID" THEN "EINVAL" ELSE "OK")

C7_Witness ==
    /\ instr_op = "parse_instr" /\ instr_arg = "instr"
    /\ BaseOf(opcode) = 67 /\ Funct3Of(opcode) = 7
    /\ instr.type = "VARITH"
    /\ instr_ret = "OK"

(***************************************************************************)
(* C8, C9: hazards                                                         *)
(***************************************************************************)
HazardStated(a, b) ==
    \/ a.modifies_vl \/ b.modifies_vl
    \/ a.vd = b.vd
    \/ a.vd \in {b.vs1, b.vs2}
    \/ b.vd \in {a.vs1, a.vs2}
    \/ (a.uses_mask \/ b.uses_mask) /\ (a.vd = 0 \/ b.vd = 0)
    \/ a.memory_access /\ b.memory_access

\* C8: conflicts(a, b) is true iff one of them modifies VL, or they share a
\* destination, or one's destination is a source of the other, or one uses
\* the mask while one's destination is register 0, or both access memory;
\* a = {vd 5, vs1 1, vs2 2}, b = {vd 3, vs1 5, vs2 4} conflict.
C8_ConflictsIff ==
    (hz_op = "conflicts" /\ hz_a # NullInstr /\ hz_b # NullInstr) =>
        /\ hz_ab = HazardStated(hz_a, hz_b)
        /\ (hz_a = ExampleA /\ hz_b = ExampleB) => hz_ab

C8_Witness ==
    /\ hz_op = "conflicts"
    /\ hz_a = ExampleA /\ hz_b = ExampleB
    /\ hz_ab

\* C9: conflicts(a, b) = conflicts(b, a) for all a and b, and a.vd = b.vs1
\* is enough for a conflict.
C9_Symmetric ==
    hz_op = "conflicts" =>
        /\ hz_ab = hz_ba
        /\ (hz_a # NullInstr /\ hz_b # NullInstr /\ hz_a.vd = hz_b.vs1) => hz_ab

C9_Witness ==
    /\ hz_op = "conflicts"
    /\ hz_a # NullInstr /\ hz_b # NullInstr
    /\ hz_a.vd = hz_b.vs1
    /\ hz_a.vd # hz_b.vd /\ hz_a.vd # hz_b.vs2
    /\ hz_b.vd \notin {hz_a.vs1, hz_a.vs2}
    /\ ~hz_a.modifies_vl /\ ~hz_b.modifies_vl
    /\ ~hz_a.uses_mask /\ ~hz_b.uses_mask
    /\ ~hz_a.memory_access /\ ~hz_b.memory_access
    /\ hz_a.vd # 0
    /\ hz_ab /\ hz_ba

(***************************************************************************)
(* C10: VRF allocator capacity                                             *)
(***************************************************************************)
\* C10: with the manager initialised, an alloc succeeds whenever fewer than
\* 32 registers are allocated, returning a register that was free and
\* marking it, and fails with no-capacity, changing nothing, exactly when
\* all 32 are allocated.
C10_VrfCapacity ==
    [][(vrf_op' = "alloc" /\ vrf_mgr # "NULL") =>
          IF Cardinality(allocated_regs) < 32
          THEN /\ vrf_ret'.err = "OK"
               /\ vrf_ret'.reg \in (0..31) \ allocated_regs
               /\ allocated_regs' = allocated_regs \cup {vrf_ret'.reg}
          ELSE /\ vrf_ret'.err = "ENOSPC"
               /\ allocated_regs' = allocated_regs]_vars

\* all 32 taken, one freed, and the next alloc handing it out again
C10_Witness ==
    /\ vrf_op = "alloc" /\ vrf_ret = [err |-> "OK", reg |-> 31]
    /\ allocated_regs = 0..31
    /\ reg_allocations = 33 /\ reg_frees = 1

(***************************************************************************)
(* C11 - C13: fdca_vector_mem_execute                                      *)
(***************************************************************************)
\* C11 as stated: with the vector unit present, an execute call on a
\* descriptor whose element count is 0 fails validation (-EINVAL), having
\* made no dma_alloc_coherent call and no register write.
C11_ZeroElementsRejected ==
    (vmem_pc # "idle" /\ vpu_present /\ vmem_op.num_elements = 0)
        => /\ vmem_ret = "EINVAL"
           /\ vmem_log = <<>>
           /\ vmem_writes = <<>>

StagingAllocs ==
    { i \in DOMAIN vmem_log : /\ vmem_log[i].ev = "alloc"
                              /\ vmem_log[i].by = "staging"
                              /\ vmem_log[i].buf # 0 }

FreesOf(b) ==
    { j \in DOMAIN vmem_log : vmem_log[j].ev = "free" /\ vmem_log[j].buf = b }

\* C12: when execute has returned, the staging buffer it allocated in that
\* call has been freed exactly once (it is no longer live and the call made
\* one dma_free_coherent on it), and op->cpu_addr is NULL; a call that
\* allocated no staging buffer freed none.
C12_StagingFreedOnce ==
    vmem_pc = "done" =>
        /\ vmem_op.cpu_addr = 0
        /\ Cardinality(StagingAllocs) <= 1
        /\ \A i \in StagingAllocs :
              /\ Cardinality(FreesOf(vmem_log[i].buf)) = 1
              /\ \A j \in FreesOf(vmem_log[i].buf) : j > i
              /\ vmem_log[i].buf \notin dma_live
        /\ StagingAllocs = {} =>
              \A j \in DOMAIN vmem_log :
                  vmem_log[j].ev = "free" => vmem_log[j].by # "staging"

\* an indexed transfer that timed out: both of its DMA buffers were
\* allocated and freed
C12_Witness ==
    /\ vmem_pc = "done"
    /\ vmem_ret = "ETIMEDOUT"
    /\ vmem_op.type = FDCA_VMEM_INDEXED
    /\ StagingAllocs # {}
    /\ Len(vmem_log) = 4

StatusDone(s) == s % 2 = 1
StatusError(s) == (s \div 2) % 2 = 1

\* C13 as stated: execute returns success when the status read shows
\* completion without error, a hardware error (-EIO) whenever a status read
\* shows the error bit, with or without the completion bit, and a timeout
\* only when no status read showed completion or error.
C13_PollOutcome ==
    (vmem_pc = "done" /\ Len(vmem_seen) > 0) =>
        LET last == vmem_seen[Len(vmem_seen)]
        IN /\ (StatusDone(last) /\ ~StatusError(last)) => vmem_ret = "OK"
           /\ (\E i \in DOMAIN vmem_seen : StatusError(vmem_seen[i]))
                 => vmem_ret = "EIO"
           /\ vmem_ret = "ETIMEDOUT" =>
                 \A i \in DOMAIN vmem_seen :
                     ~StatusDone(vmem_seen[i]) /\ ~StatusError(vmem_seen[i])

(***************************************************************************)
(* C14, C15, C18, C19: the context state machine and the manager           *)
(***************************************************************************)
\* this step is a call of op on context c
IsCall(op, c) ==
    /\ ctx_calls' = ctx_calls + 1
    /\ ctx_op' = op
    /\ ctx_arg' = c

\* C14: a created context is inactive, not preempted, with an invalid CSR
\* state; a restore of a context that was never saved fails and leaves it
\* inactive; a successful save leaves active = false; a successful restore
\* leaves active = true and preempted = false; destroy frees the context from
\* whatever state it is in, and a destroyed context never changes again.
C14_ContextStateMachine ==
    [][\A c \in CtxIds :
          /\ (IsCall("create", c) /\ ctx_ret' = "OK") =>
                /\ ctx'[c].state = "live"
                /\ ~ctx'[c].active /\ ~ctx'[c].preempted
                /\ ~ctx'[c].csr.valid
                /\ ctx'[c].regs.allocated
          /\ (IsCall("restore", c) /\ ctx[c].csr.save_count = 0) =>
                /\ ctx_ret' = "EINVAL"
                /\ ~ctx'[c].active
          /\ (IsCall("save", c) /\ ctx_ret' = "OK") => ~ctx'[c].active
          /\ (IsCall("restore", c) /\ ctx_ret' = "OK") =>
                /\ ctx'[c].active
                /\ ~ctx'[c].preempted
          /\ IsCall("destroy", c) =>
                /\ ctx'[c].state = "freed"
                /\ kheap' \cap {<<"ctx", c>>, <<"vregs", c>>, <<"vmask", c>>} = {}
          /\ ctx[c].state = "freed" => ctx'[c] = ctx[c]
      ]_vars

\* a context that was preempted after a restore, and restored again
C14_Witness ==
    /\ ctx_op = "restore"
    /\ ctx_ret = "OK"
    /\ ctx_arg \in CtxIds
    /\ ctx[ctx_arg].active
    /\ ctx[ctx_arg].restore_count = 2
    /\ ctx[ctx_arg].save_count = 1

\* C15 as stated: no two live contexts are active at once, and an active
\* context is the manager's current context.
C15_OneActive ==
    /\ \A c, d \in LiveCtxs : (ctx[c].active /\ ctx[d].active) => c = d
    /\ \A c \in LiveCtxs :
          ctx[c].active => (g_rvv_manager # "NULL" /\ mgr.current_ctx = c)

\* C18: a successful switch that does not take the fast path saves the
\* current context (when there is one) and then restores new_ctx, leaves
\* current_ctx = new_ctx and adds one to total_switches; a fast switch adds
\* one too, and a switch that fails adds nothing.
C18_SwitchSaveThenRestore ==
    [][\A new \in CtxIds :
          /\ (IsCall("switch", new) /\ ctx_ret' = "OK"
                /\ mgr'.fast_switches = mgr.fast_switches) =>
                /\ ctx_trace' =
                      IF mgr.current_ctx # 0
                      THEN << <<"save", mgr.current_ctx>>, <<"restore", new>> >>
                      ELSE << <<"restore", new>> >>
                /\ mgr'.current_ctx = new
                /\ mgr'.total_switches = mgr.total_switches + 1
          /\ (IsCall("switch", new) /\ ctx_ret' = "OK") =>
                mgr'.total_switches = mgr.total_switches + 1
          /\ (IsCall("switch", new) /\ ctx_ret' # "OK") =>
                mgr'.total_switches = mgr.total_switches
      ]_vars

\* a full switch away from a current context
C18_Witness ==
    /\ ctx_op = "switch"
    /\ ctx_ret = "OK"
    /\ Len(ctx_trace) = 2
    /\ mgr.current_ctx = ctx_arg
    /\ mgr.total_switches = 2

\* C19: with three or more corruption detections recorded the latch
\* error_recovery_active is set; while it is set every switch is rejected
\* with the invalid-state error and changes nothing; only the explicit reset
\* (or a new manager) clears it; and it is set only once the count has
\* reached three, a switch before that being carried out, not rejected.
C19_RecoveryLatch ==
    [][/\ (g_rvv_manager' # "NULL" /\ mgr'.corruption_detected >= 3)
             => mgr'.error_recovery_active
       /\ (~mgr.error_recovery_active /\ mgr'.error_recovery_active)
             => mgr'.corruption_detected >= 3
       /\ (mgr.error_recovery_active /\ ~mgr'.error_recovery_active)
             => ctx_op' \in {"reset_error_state", "manager_init", "manager_fini"}
       /\ \A new \in CtxIds \cup {0} :
             /\ (IsCall("switch", new) /\ mgr.error_recovery_active) =>
                   /\ ctx_ret' = "EINVAL"
                   /\ ctx_trace' = <<>>
                   /\ UNCHANGED <<ctx, mgr>>
             /\ (IsCall("switch", new) /\ new # 0 /\ g_rvv_manager # "NULL"
                   /\ ~mgr.error_recovery_active) =>
                   \/ ctx_ret' = "OK"
                   \/ ctx_trace' # <<>>
      ]_vars

\* the switch after the third detection, rejected
C19_Witness ==
    /\ ctx_op = "switch"
    /\ ctx_ret = "EINVAL"
    /\ ctx_arg \in CtxIds
    /\ ctx_trace = <<>>
    /\ mgr.error_recovery_active
    /\ mgr.corruption_detected = 3

(***************************************************************************)
(* C16, C17: concurrent save, restore and destroy                          *)
(***************************************************************************)
\* C16: two save / restore calls on the same context are never both between
\* mutex_lock and mutex_unlock, the thread that is holds the context's lock,
\* and while it does every change of the context's CSR state, register
\* state, counters and flags is a step of that thread.
C16_Serialized ==
    [][/\ \A t1, t2 \in Threads :
             (InCritical(t1) /\ InCritical(t2) /\ thr[t1].c = thr[t2].c) => t1 = t2
       /\ \A t \in Threads : InCritical(t) => ctx[thr[t].c].lock = t
       /\ \A t \in Threads :
             (InCritical(t) /\ ctx[thr[t].c].state = "live"
                /\ ctx'[thr[t].c].state = "live"
                /\ ctx'[thr[t].c] # ctx[thr[t].c]) => thr'[t] # thr[t]
      ]_vars

\* a second caller waiting at mutex_lock while the first is in its transfer
C16_Witness ==
    \E t1, t2 \in Threads :
        /\ t1 # t2
        /\ thr[t1].pc = "regs"
        /\ thr[t2].pc = "lock"
        /\ thr[t1].c = thr[t2].c
        /\ ctx[thr[t1].c].state = "live"

\* C17 as stated: while a save or restore is between acquiring and releasing
\* the context lock, the context object and its register buffers are
\* allocated.
C17_NotFreedUnderLock ==
    \A t \in Threads :
        InCritical(t) =>
            /\ ctx[thr[t].c].state = "live"
            /\ {<<"ctx", thr[t].c>>, <<"vregs", thr[t].c>>, <<"vmask", thr[t].c>>}
                  \subseteq kheap

(***************************************************************************)
(* C20: instruction validation                                             *)
(***************************************************************************)
\* C20: fdca_rvv_validate_instr on a descriptor leaves the descriptor as it
\* is and returns, the rules taken in the order stated: a range error if vd,
\* vs1 or vs2 is >= 32; else an invalid-operand error if the instruction is
\* a memory instruction that uses the mask and has vd = 0; else an
\* invalid-operand error if it is a reduction with vd # vs1; else a range
\* error if it is a configuration instruction asking for a VL above the
\* maximum; else success when its type is VMEM, VARITH or VSETVLI.
C20_ValidateRejects ==
    [][(instr_op' = "validate_instr" /\ instr_arg' = "instr") =>
          /\ instr' = instr
          /\ IF instr.vd >= 32 \/ instr.vs1 >= 32 \/ instr.vs2 >= 32
             THEN instr_ret' = "ERANGE"
             ELSE IF instr.type = "VMEM" /\ instr.uses_mask /\ instr.vd = 0
             THEN instr_ret' = "EINVAL"
             ELSE IF instr.type = "VARITH" /\ instr.subtype = FDCA_VARITH_REDUCE
                        /\ instr.vd # instr.vs1
             THEN instr_ret' = "EINVAL"
             ELSE IF instr.type = "VSETVLI" /\ instr.imm > 1024
             THEN instr_ret' = "ERANGE"
             ELSE instr.type \in {"VMEM", "VARITH", "VSETVLI"} => instr_ret' = "OK"
      ]_vars

\* a descriptor with vd = 32 has been validated and rejected
C20_Witness ==
    /\ instr_op = "validate_instr"
    /\ instr_arg = "instr"
    /\ instr.vd = 32
    /\ instr.vs1 < 32
    /\ instr.vs2 < 32
    /\ instr_ret = "ERANGE"

(***************************************************************************)
(* C21, C22: CSR restore and CSR validation                                *)
(***************************************************************************)
\* the addresses written by the last call
WrittenCsrs == { csr_writes[i][1] : i \in 1..Len(csr_writes) }

\* C21: fdca_rvv_csr_restore on a context with valid = false returns the
\* invalid-state error and writes nothing to the hardware; on a valid context
\* it succeeds with six writes, one to each of vstart, vxsat, vxrm, vcsr, vl
\* and vtype, and none to vlenb.
C21_CsrRestoreNeedsValid ==
    (csr_op = "csr_restore" /\ csr_arg = "ctx") =>
        IF csr_ctx.valid
        THEN /\ csr_ret = "OK"
             /\ Len(csr_writes) = 6
             /\ WrittenCsrs = {FDCA_CSR_VSTART, FDCA_CSR_VXSAT, FDCA_CSR_VXRM,
                               FDCA_CSR_VCSR, FDCA_CSR_VL, FDCA_CSR_VTYPE}
             /\ FDCA_CSR_VLENB \notin WrittenCsrs
        ELSE /\ csr_ret = "EINVAL"
             /\ csr_writes = <<>>

\* a restore of a valid context the caller filled in itself (never saved)
C21_Witness ==
    /\ csr_op = "csr_restore" /\ csr_arg = "ctx"
    /\ csr_ctx.valid
    /\ csr_ctx.save_count = 0
    /\ csr_ret = "OK"

\* C22 as stated: fdca_rvv_csr_validate on a context whose vtype has been
\* parsed returns the illegal-vtype error if vill is set, else a range error
\* if vl > vlen / sew_bits of the device's capability or vstart > vl, and
\* success otherwise, whether or not the manager is set up.
C22_CsrValidate ==
    (csr_op = "csr_validate" /\ csr_arg = "ctx" /\ csr_ctx.parsed.sew_bits # 0) =>
        csr_ret = IF csr_ctx.parsed.vill THEN "EINVAL"
                  ELSE IF csr_ctx.vl > rvv_config.vlen \div csr_ctx.parsed.sew_bits
                          \/ csr_ctx.vstart > csr_ctx.vl
                  THEN "ERANGE"
                  ELSE "OK"

(***************************************************************************)
(* C23, C27: release, save and restore of the register file                *)
(***************************************************************************)
\* the two buffers of the register state are live kzalloc objects
BuffersLive(h, r) ==
    /\ r.vregs_data \in BufIds /\ h[r.vregs_data] # -1
    /\ r.vmask_data \in BufIds /\ h[r.vmask_data] # -1

\* C23: a fdca_rvv_regs_free that leaves the reference count above zero
\* frees nothing and leaves both buffers live; the one that takes the count
\* to zero frees both buffers, which were live until then, and zeroes the
\* structure; on a state that is not allocated it changes nothing; and the
\* count is never negative.
C23_FreeAtZero ==
    [][regs_op' = "regs_free" =>
          /\ reg_state'.ref_count >= 0
          /\ IF ~reg_state.allocated
             THEN reg_state' = reg_state /\ heap' = heap
             ELSE IF reg_state.ref_count > 1
             THEN /\ heap' = heap
                  /\ reg_state' = [reg_state EXCEPT !.ref_count = @ - 1]
                  /\ BuffersLive(heap', reg_state')
             ELSE /\ BuffersLive(heap, reg_state)
                  /\ heap'[reg_state.vregs_data] = -1
                  /\ heap'[reg_state.vmask_data] = -1
                  /\ reg_state' = ZeroRegs
      ]_vars

\* a release has left a second reference and the buffers in place
C23_Witness ==
    /\ regs_op = "regs_free"
    /\ reg_state.allocated
    /\ reg_state.ref_count = 1
    /\ BuffersLive(heap, reg_state)

\* C27: fdca_rvv_regs_save returns the invalid-state error when the state is
\* not allocated, and otherwise succeeds and marks the state saved;
\* fdca_rvv_regs_restore returns it when the state is not allocated or was
\* never saved, and otherwise succeeds; a failed save or restore changes no
\* field of the register state.
C27_RegsSaveRestore ==
    [][/\ regs_op' = "regs_save" =>
            IF reg_state.allocated
            THEN regs_ret' = "OK" /\ reg_state'.saved
            ELSE regs_ret' = "EINVAL" /\ reg_state' = reg_state
       /\ regs_op' = "regs_restore" =>
            IF reg_state.allocated /\ reg_state.saved
            THEN regs_ret' = "OK"
            ELSE regs_ret' = "EINVAL" /\ reg_state' = reg_state
      ]_vars

\* a restore of an allocated state that was never saved has failed
C27_Witness ==
    /\ regs_op = "regs_restore"
    /\ regs_ret = "EINVAL"
    /\ reg_state.allocated
    /\ ~reg_state.saved

(***************************************************************************)
(* C24, C25, C28: creation of a context, set-up and teardown of the manager *)
(***************************************************************************)
\* C24: fdca_rvv_context_create fails with the device-unavailable error
\* exactly when the vector extension is absent, and with the out-of-memory
\* error when the context or one of the two register buffers cannot be
\* allocated; a failed call leaves the live objects and the contexts as they
\* were; a successful call returns a new context with allocated registers,
\* both buffers and the context object live, a CSR state that is neither
\* valid nor dirty, active = false and zero save and restore counters.
C24_CreateAllOrNothing ==
    [][ctx_op' = "create" =>
          /\ ctx_ret' \in {"OK", "ENODEV", "ENOMEM"}
          /\ ctx_ret' = "ENODEV" <=> ~rvv_available
          /\ \A fail \in {"ctx", "vregs", "vmask"} :
                rvv_available => fdca_rvv_context_create(1, fail, 1).ret = "ENOMEM"
          /\ ctx_ret' # "OK" => kheap' = kheap /\ ctx' = ctx
          /\ ctx_ret' = "OK" =>
                LET c == ctx_arg'
                IN /\ c \in CtxIds
                   /\ ctx[c].state = "none"
                   /\ ctx'[c].state = "live"
                   /\ kheap' = kheap \cup {<<"ctx", c>>, <<"vregs", c>>, <<"vmask", c>>}
                   /\ ctx'[c].regs.allocated
                   /\ ~ctx'[c].csr.valid
                   /\ ~ctx'[c].csr.dirty
                   /\ ~ctx'[c].active
                   /\ ctx'[c].save_count = 0
                   /\ ctx'[c].restore_count = 0
      ]_vars

\* a creation has failed for lack of memory beside a live context, and left
\* the live objects as they were
C24_Witness ==
    /\ ctx_op = "create"
    /\ ctx_ret = "ENOMEM"
    /\ LiveCtxs = {1}
    /\ kheap \cap {<<"ctx", 2>>, <<"vregs", 2>>, <<"vmask", 2>>} = {}

\* C25 as stated: fdca_rvv_state_manager_fini called on a set-up manager
\* while a created context has not been destroyed does not complete as a
\* silent teardown (manager freed, g_rvv_manager cleared, nothing reported).
C25_FiniDetectsLeak ==
    [][(ctx_op' = "manager_fini" /\ g_rvv_manager # "NULL" /\ LiveCtxs # {}) =>
          ~(g_rvv_manager' = "NULL" /\ ctx_ret' = "void")]_vars

\* C28: a fdca_rvv_state_manager_init in which the manager or one of the
\* two pool arrays cannot be allocated returns the out-of-memory error and
\* leaves the live objects, g_rvv_manager and the manager as they were; a
\* successful one sets g_rvv_manager to a new manager whose structure and
\* pool arrays are live, with 16 pool slots, none used, no current context
\* and all counters zero.
C28_InitAllOrNothing ==
    [][ctx_op' = "manager_init" =>
          /\ ctx_ret' \in {"OK", "ENOMEM"}
          /\ \A fail \in {"mgr", "buffers", "used"} :
                fdca_rvv_state_manager_init(fail, kheap, g_rvv_manager, mgr).ret = "ENOMEM"
          /\ ctx_ret' = "ENOMEM" =>
                kheap' = kheap /\ g_rvv_manager' = g_rvv_manager /\ mgr' = mgr
          /\ ctx_ret' = "OK" =>
                /\ g_rvv_manager' = "mgr"
                /\ MgrObjs(mgr'.id) \cap kheap = {}
                /\ kheap' = kheap \cup MgrObjs(mgr'.id)
                /\ mgr'.pool_size = 16
                /\ mgr'.used_slots = {}
                /\ mgr'.current_ctx = 0
                /\ mgr'.context_count = 0
                /\ mgr'.total_switches = 0 /\ mgr'.lazy_saves = 0
                /\ mgr'.fast_switches = 0
                /\ mgr'.save_errors = 0 /\ mgr'.restore_errors = 0
                /\ mgr'.corruption_detected = 0
                /\ ~mgr'.error_recovery_active
      ]_vars

\* an initialisation has failed with no manager set and nothing left behind
C28_Witness ==
    /\ ctx_op = "manager_init"
    /\ ctx_ret = "ENOMEM"
    /\ g_rvv_manager = "NULL"
    /\ kheap = {}

(***************************************************************************)
(* C26: the context lock on the exit paths                                 *)
(***************************************************************************)
\* C26: a thread that is not inside fdca_rvv_context_save or _restore holds
\* the lock of no live context, whatever its last call returned, and the
\* lock of a live context is held only by a thread between mutex_lock and
\* mutex_unlock on that context; so with no call in flight on a context its
\* lock is free for the next caller.
C26_LockReleased ==
    \A c \in LiveCtxs :
        /\ \A t \in Threads : thr[t].pc = "idle" => ctx[c].lock # t
        /\ ctx[c].lock # 0 =>
              /\ ctx[c].lock \in Threads
              /\ InCritical(ctx[c].lock)
              /\ thr[ctx[c].lock].c = c

\* a restore has failed in fdca_rvv_regs_restore (CSR state valid, registers
\* never saved) and returned, and the lock is free
C26_Witness ==
    \E t \in Threads :
        /\ thr[t].pc = "idle"
        /\ thr[t].op = "restore"
        /\ thr[t].ret = "EINVAL"
        /\ thr[t].c \in LiveCtxs
        /\ ctx[thr[t].c].csr.valid
        /\ ~ctx[thr[t].c].regs.saved
        /\ ctx[thr[t].c].lock = 0

(***************************************************************************)
(* C29, C30: the decoded descriptor                                        *)
(***************************************************************************)
\* the five-bit field of the instruction word starting at bit lo
Field5(word, lo) ==
    BitAt(word, lo) + 2 * BitAt(word, lo + 1) + 4 * BitAt(word, lo + 2)
       + 8 * BitAt(word, lo + 3) + 16 * BitAt(word, lo + 4)

\* C29: after a successful fdca_rvv_parse_instr the descriptor has
\* vd = bits[11:7], vs1 = bits[19:15] and vs2 = bits[24:20] of the opcode,
\* all below 32, and for memory and arithmetic instructions uses_mask is
\* true exactly when bit 25 of the opcode is 0.
C29_DecodedFields ==
    (instr_op = "parse_instr" /\ instr_arg = "instr" /\ instr_ret = "OK") =>
        /\ instr.vd = Field5(opcode, 7)
        /\ instr.vs1 = Field5(opcode, 15)
        /\ instr.vs2 = Field5(opcode, 20)
        /\ instr.vd < 32 /\ instr.vs1 < 32 /\ instr.vs2 < 32
        /\ instr.type \in {"VMEM", "VARITH"} => (instr.uses_mask <=> 25 \notin opcode)

\* an unmasked instruction with non-zero operand fields has been decoded
C29_Witness ==
    /\ instr_op = "parse_instr" /\ instr_arg = "instr" /\ instr_ret = "OK"
    /\ 25 \in opcode
    /\ instr.vd = 31 /\ instr.vs1 = 21 /\ instr.vs2 = 10
    /\ instr.type = "VARITH"
    /\ ~instr.uses_mask

\* C30: after a successful fdca_rvv_parse_instr the latency is 10 for a
\* memory instruction, 5 for an arithmetic multiply or divide, 2 for any
\* other arithmetic instruction and 1 for a configuration instruction, and
\* memory_access is true exactly for memory instructions.
C30_LatencyByClass ==
    (instr_op = "parse_instr" /\ instr_arg = "instr" /\ instr_ret = "OK") =>
        /\ instr.type \in {"VMEM", "VARITH", "VSETVLI"}
        /\ instr.type = "VMEM" => instr.latency = 10
        /\ instr.type = "VARITH" =>
              instr.latency = IF instr.subtype \in {FDCA_VARITH_MUL, FDCA_VARITH_DIV}
                              THEN 5 ELSE 2
        /\ instr.type = "VSETVLI" => instr.latency = 1
        /\ instr.memory_access <=> instr.type = "VMEM"

\* a divide has been decoded with latency 5
C30_Witness ==
    /\ instr_op = "parse_instr" /\ instr_arg = "instr" /\ instr_ret = "OK"
    /\ instr.type = "VARITH"
    /\ instr.subtype = FDCA_VARITH_DIV
    /\ instr.latency = 5
    /\ ~instr.memory_access

(***************************************************************************)
(* C31, C32: arithmetic submodes and configuration instructions            *)
(***************************************************************************)
\* the arithmetic instruction word with the funct6 field f
VarithWord(f) == Encode(RVV_ARITH, 0, 0, 0, 0, 0, f)

\* C31 as stated: every one of the ten submodes is decoded from at least one
\* funct6 value, and no funct6 value is a case label of two submodes.
C31_DirectMapping ==
    /\ \A sub \in FDCA_VARITH_ADD..FDCA_VARITH_REDUCE :
          \E f \in 0..63 : fdca_rvv_decode_varith_type(VarithWord(f)) = sub
    /\ \A f \in 0..63 : Cardinality(VarithLabels(f)) <= 1

\* C32: a configuration instruction decoded by fdca_rvv_parse_instr has
\* modifies_vl = true and a requested vector length equal to bits[19:15] of
\* the opcode, and fdca_rvv_instr_conflicts of it and any other decoded
\* instruction is true in both argument orders.
C32_ConfigInstr ==
    /\ (instr_op = "parse_instr" /\ instr_arg = "instr" /\ instr_ret = "OK"
          /\ instr.type = "VSETVLI") =>
            /\ instr.modifies_vl
            /\ instr.imm = Field5(opcode, 15)
    /\ (hz_op = "conflicts" /\ hz_a # NullInstr /\ hz_b # NullInstr) =>
            ((hz_a.type = "VSETVLI" \/ hz_b.type = "VSETVLI") => (hz_ab /\ hz_ba))

\* a configuration instruction asking for VL 21 has been compared with an
\* addition that shares no register with it
C32_Witness ==
    /\ hz_op = "conflicts"
    /\ hz_a.type = "VSETVLI"
    /\ hz_a.imm = 21
    /\ hz_a.vd = 31
    /\ hz_b.type = "VARITH"
    /\ hz_ab /\ hz_ba

(***************************************************************************)
(* C33: lane access                                                        *)
(***************************************************************************)
\* the window of the unit, and with it of every lane, is not mapped
LaneWindowUnmapped == vpu_base = 0

\* C33: fdca_vrf_read_lane and fdca_vrf_write_lane on an initialised
\* manager return the error of an argument out of range when reg is not in
\* 0..31 or lane is not in 0..num_lanes-1, else the device-unavailable error
\* when the window of the lane is not mapped; a failing call copies nothing
\* and leaves lane_accesses alone; a successful one copies from byte
\* reg * (lane_width / 8) of the window of the lane.
C33_LaneAccess ==
    [][(vrf_op' \in {"read_lane", "write_lane"} /\ vrf_mgr = "mgr") =>
         LET reg == vrf_ret'.reg
         IN  /\ (reg < 0 \/ reg >= 32) => vrf_ret'.err = "EINVAL"
             /\ (reg >= 0 /\ reg < 32 /\ vrf_ret'.err # "EINVAL" /\ LaneWindowUnmapped)
                    => vrf_ret'.err = "ENODEV"
             /\ vrf_ret'.err # "OK" =>
                    (lane_io' = NoLaneIo /\ lane_accesses' = lane_accesses)
             /\ vrf_ret'.err = "OK" =>
                    \E lane \in 0..(lane_info.num_lanes - 1) :
                        lane_io'.addr = lane_info.lane_bases[lane]
                                          + reg * (lane_info.lane_width \div 8)
      ]_vars

(***************************************************************************)
(* C34: the completion poll ends                                           *)
(***************************************************************************)
\* the start registers of the four addressing modes
StartRegs == {284, 316, 356, 412}

\* the writes of the start bit made by the running or last call
StartWrites == { i \in 1..Len(vmem_writes) : vmem_writes[i][1] \in StartRegs }

\* C34: a call of fdca_vector_mem_execute that has started the hardware
\* returns, whatever the status register shows: it is polling for at most
\* MaxPolls passes before the deadline plus the one that finds the deadline
\* passed, it returns success, the hardware error or the timeout, and it
\* has written the start bit once.
C34_ExecuteTerminates ==
    /\ [](vmem_pc = "wait" => vmem_polls <= MaxPolls)
    /\ []((vmem_pc = "done" /\ vmem_polls > 0) =>
             (vmem_ret \in {"OK", "EIO", "ETIMEDOUT"} /\ vmem_polls <= MaxPolls + 1))
    /\ [](Cardinality(StartWrites) <= 1)
    /\ [](vmem_pc = "wait" => Cardinality(StartWrites) = 1)
    /\ (vmem_pc = "wait" ~> vmem_pc = "done")

\* the status register never showed completion and the call has returned
\* the timeout after the last pass
C34_Witness ==
    /\ vmem_pc = "done"
    /\ vmem_ret = "ETIMEDOUT"
    /\ vmem_polls = MaxPolls + 1
    /\ \A i \in 1..Len(vmem_seen) : vmem_seen[i] = 0
    /\ Cardinality(StartWrites) = 1

(***************************************************************************)
(* C35: the size of the staging buffer                                     *)
(***************************************************************************)
\* the two factors of the size for the addressing mode of op
SizeFactors(op) ==
    IF op.type = FDCA_VMEM_STRIDED THEN <<op.num_elements, op.stride>>
    ELSE <<op.num_elements, op.element_size>>

\* C35: the size fdca_vector_mem_prepare_dma asks dma_alloc_coherent for
\* is the product of the element count and the element size (the stride in
\* strided mode) as a number, nothing of the product being lost, and only
\* the unit-stride, strided, indexed and segment modes get to the allocation.
C35_StagingSize ==
    \A i \in 1..Len(vmem_log) :
        (vmem_log[i].ev = "alloc" /\ vmem_log[i].by = "staging") =>
            /\ vmem_op.type \in {FDCA_VMEM_UNIT_STRIDE, FDCA_VMEM_STRIDED,
                                 FDCA_VMEM_INDEXED, FDCA_VMEM_SEGMENT}
            /\ MulHigh32(SizeFactors(vmem_op)[1], SizeFactors(vmem_op)[2]) = 0
            /\ vmem_log[i].size = SizeFactors(vmem_op)[1] * SizeFactors(vmem_op)[2]

(***************************************************************************)
(* C36: the division in fdca_rvv_csr_validate                              *)
(***************************************************************************)
\* C36: whenever fdca_rvv_csr_validate gets to `hw_config->vlen /
\* csr_ctx->parsed.sew_bits` (the manager is set and vill is clear), sew_bits
\* is not 0, also for the zeroed CSR state of a context just created.
C36_NoDivisionByZero ==
    [][(csr_op' = "csr_validate" /\ csr_arg' = "ctx" /\ g_rvv_manager # "NULL"
          /\ ~csr_ctx.parsed.vill) => csr_ctx.parsed.sew_bits # 0]_vars

(***************************************************************************)
(* C37: a failed restore                                                   *)
(***************************************************************************)
\* C37: a call of fdca_rvv_context_restore that returns an error has written
\* no CSR and has left active, preempted, restore_count and last_use_time of
\* the context as they were.
C37_RestoreAllOrNothing ==
    [][(ctx_op' = "restore" /\ ctx_arg' # 0 /\ ctx_ret' # "OK") =>
          /\ ctx_writes' = <<>>
          /\ ctx'[ctx_arg'].active = ctx[ctx_arg'].active
          /\ ctx'[ctx_arg'].preempted = ctx[ctx_arg'].preempted
          /\ ctx'[ctx_arg'].restore_count = ctx[ctx_arg'].restore_count
          /\ ctx'[ctx_arg'].last_use_time = ctx[ctx_arg'].last_use_time
      ]_vars

FenceSignaled(id) ==
    \E i \in 1..Len(sync_objects) :
        sync_objects[i].fence_id = id /\ sync_objects[i].signaled

\* C40: a fdca_sync_wait_fence on a fence fdca_sync_signal_fence has
\* signalled returns 0, for every waiter; signal and wait on an id no
\* fdca_sync_create_fence has returned give -ENOENT.
C40_SignalReleasesAll ==
    /\ [][\A t \in SyncThreads :
            /\ (sync_thr[t].pc = "wait" /\ sync_thr'[t].pc = "idle"
                  /\ FenceSignaled(sync_thr[t].id)) => sync_thr'[t].ret = "OK"
            /\ (sync_thr[t].pc = "idle" /\ sync_thr'[t] # sync_thr[t]
                  /\ sync_thr'[t].id \notin 1..fence_counter) =>
                    (sync_thr'[t].pc = "idle" /\ sync_thr'[t].ret = "ENOENT")
       ]_vars
    /\ []((sync_call.op = "signal" /\ sync_call.id \notin 1..fence_counter)
             => sync_call.ret = "ENOENT")

(***************************************************************************)
(* C39: the index buffer of an indexed transfer                            *)
(***************************************************************************)
\* C39: while an indexed call is polling for the outcome of the operation
\* it started, the DMA buffer whose address it wrote to the index-address
\* register (0x148) has not been freed.
C39_IndexBufferKept ==
    (vmem_pc = "wait" /\ vmem_op.type = FDCA_VMEM_INDEXED) =>
        \A i \in 1..Len(vmem_writes) :
            vmem_writes[i][1] = 328 =>
                /\ vmem_writes[i][2] \in dma_live
                /\ \A j \in 1..Len(vmem_log) :
                      ~(vmem_log[j].ev = "free" /\ vmem_log[j].by = "indices")
====
